---------------------------- MODULE Spec2Model ----------------------------
(***************************************************************************)
(* A model of the LHDiff line matcher: the normalizer (lh_diff/io.py), the *)
(* SimHash candidate generator (lh_diff/simhash_index.py), the similarity  *)
(* scores (lh_diff/similarity.py) and the multi-pass DiffMatcher           *)
(* (lh_diff/matcher.py).                                                   *)
(*                                                                         *)
(* A string is a sequence of one-character strings.  Two symbols stand for *)
(* a three-character delimiter each: "T" is ''' and "D" is the triple      *)
(* double quote.  Indices are 1-based here and 0-based in the Python code. *)
(***************************************************************************)
EXTENDS Integers, Sequences, FiniteSets, TLC

VARIABLES
    \* ---- normalizer (io.py) ----
    text,          \* the raw file text read by read_file
    npc,           \* position of the normalizer run
    raw_lines,     \* read_file's result
    norm_lines,    \* build_normalized_lines' working list
    first_out,     \* the result of the first normalization
    raised,        \* TRUE once normalize_block_comments raised IndexError
    \* ---- candidate generator (simhash_index.py) ----
    qpc,           \* position of the candidate query
    q_old,         \* fingerprints of the old lines
    q_new,         \* SimhashIndex.hashes: fingerprints of the new lines
    q_k,           \* the argument k
    q_out,         \* generate_candidate_sets' result: old_idx -> [new_idx]
    \* ---- the pipeline of main.py run_case ----
    pc,            \* the stage that runs next
    matcher,       \* the DiffMatcher instance: its attributes
    frame          \* the locals of run_case and of best_match_for_each_line

nvars == <<text, npc, raw_lines, norm_lines, first_out, raised>>

qvars == <<qpc, q_old, q_new, q_k, q_out>>

pvars == <<pc, matcher, frame>>

vars == <<nvars, qvars, pvars>>

(***************************************************************************)
(* Generic sequence helpers                                                *)
(***************************************************************************)
Min(a, b) == IF a <= b THEN a ELSE b

Max(a, b) == IF a >= b THEN a ELSE b

Abs(a) == IF a < 0 THEN -a ELSE a

\* s has the pattern pat at position p
MatchAt(s, pat, p) ==
    /\ p >= 1
    /\ p + Len(pat) - 1 <= Len(s)
    /\ \A q \in 1..Len(pat) : s[p + q - 1] = pat[q]

\* re.search from position i: the leftmost position >= i of pat in s, 0 if none
Find(s, pat, i) ==
    LET hits == {p \in i..Len(s) : MatchAt(s, pat, p)}
    IN IF hits = {} THEN 0 ELSE CHOOSE p \in hits : \A q \in hits : p <= q

\* the leftmost position of any of the patterns, 0 if none
FindAny(s, pats) ==
    LET hits == {p \in 1..Len(s) : \E pat \in pats : MatchAt(s, pat, p)}
    IN IF hits = {} THEN 0 ELSE CHOOSE p \in hits : \A q \in hits : p <= q

\* the position just after the last occurrence of any of the patterns, 0 if none
EndOfLast(s, pats) ==
    LET ends == {p + Len(pat) : p \in 1..Len(s), pat \in pats}
        hits == {e \in ends : \E p \in 1..Len(s), pat \in pats :
                     MatchAt(s, pat, p) /\ e = p + Len(pat)}
    IN IF hits = {} THEN 0 ELSE CHOOSE e \in hits : \A f \in hits : e >= f

(***************************************************************************)
(* io.py: read_file, normalize_line, normalize_block_comments              *)
(***************************************************************************)
NL == "\n"

TripleSingle == <<"T">>

TripleDouble == <<"D">>

BlockOpen == <<"/", "*">>

BlockClose == <<"*", "/">>

Openers == {TripleSingle, TripleDouble, BlockOpen}

Closers == {TripleSingle, TripleDouble, BlockClose}

\* read_file: the lines of the text, without their newline; a text that
\* ends in a newline has no extra empty last line
RECURSIVE SplitLines(_)
SplitLines(t) ==
    IF t = <<>> THEN <<>>
    ELSE LET p == Find(t, <<NL>>, 1)
         IN IF p = 0 THEN <<t>>
            ELSE <<SubSeq(t, 1, p - 1)>> \o SplitLines(SubSeq(t, p + 1, Len(t)))

read_file(t) == SplitLines(t)

RECURSIVE LStrip(_)
LStrip(s) == IF s # <<>> /\ Head(s) = " " THEN LStrip(Tail(s)) ELSE s

RECURSIVE RStrip(_)
RStrip(s) ==
    IF s # <<>> /\ s[Len(s)] = " " THEN RStrip(SubSeq(s, 1, Len(s) - 1)) ELSE s

\* str.strip()
Strip(s) == RStrip(LStrip(s))

\* re.sub(r"\s+", " ", line)
RECURSIVE CollapseSpaces(_)
CollapseSpaces(s) ==
    IF Len(s) < 2 THEN s
    ELSE IF s[1] = " " /\ s[2] = " " THEN CollapseSpaces(Tail(s))
    ELSE <<Head(s)>> \o CollapseSpaces(Tail(s))

\* re.sub(pat + ".*", "", line): cut at the leftmost pat
CutAt(s, pat) ==
    LET p == Find(s, pat, 1)
    IN IF p = 0 THEN s ELSE SubSeq(s, 1, p - 1)

\* re.sub(open + ".*?" + close, "", line): every non-overlapping pair, left
\* to right; the text left by a removal is not scanned again
RECURSIVE RemovePairs(_, _, _)
RemovePairs(s, open, close) ==
    LET p == Find(s, open, 1)
        q == IF p = 0 THEN 0 ELSE Find(s, close, p + Len(open))
    IN IF q = 0 THEN s
       ELSE SubSeq(s, 1, p - 1)
            \o RemovePairs(SubSeq(s, q + Len(close), Len(s)), open, close)

\* normalize_line(line, remove_comments=True, lowercase=False)
normalize_line(line) ==
    LET l1 == CollapseSpaces(Strip(line))
        l2 == CutAt(l1, <<"/", "/">>)
        l3 == CutAt(l2, <<"#">>)
        l4 == RemovePairs(l3, TripleSingle, TripleSingle)
        l5 == RemovePairs(l4, BlockOpen, BlockClose)
    IN Strip(l5)

\* re.search(r"('''|\"\"\"|/\*)", line)
HasOpener(line) == FindAny(line, Openers) # 0

\* re.search(r"('''|\"\"\"|\*/)", line)
HasCloser(line) == FindAny(line, Closers) # 0

\* re.sub(r"('''|\"\"\"|/\*).*$", "", line)
TruncateAtOpener(line) == SubSeq(line, 1, FindAny(line, Openers) - 1)

\* re.sub(r".*?('''|\"\"\"|\*/)", "", line): every prefix up to a closer goes
TruncateToCloser(line) == SubSeq(line, EndOfLast(line, Closers), Len(line))

\* the inner while loop: the first index >= i whose line holds a closer; the
\* loop reads norm_lines[i] before it tests anything, so it runs past the
\* end (0 here, IndexError in Python) when no such line is left
ScanForCloser(lines, i) ==
    LET hits == {j \in i..Len(lines) : HasCloser(lines[j])}
    IN IF hits = {} THEN 0 ELSE CHOOSE j \in hits : \A h \in hits : j <= h

\* normalize_block_comments from currentLineIndex on: the list and whether
\* IndexError was raised
RECURSIVE BlockCommentsFrom(_, _)
BlockCommentsFrom(lines, currentLineIndex) ==
    IF currentLineIndex > Len(lines) THEN [lines |-> lines, raised |-> FALSE]
    ELSE IF HasOpener(lines[currentLineIndex]) THEN
        LET closeIdx == ScanForCloser(lines, currentLineIndex + 1)
            limit == IF closeIdx = 0 THEN Len(lines) ELSE closeIdx - 1
            erased == [j \in 1..Len(lines) |->
                         IF j = currentLineIndex THEN TruncateAtOpener(lines[j])
                         ELSE IF j > currentLineIndex /\ j <= limit THEN <<>>
                         ELSE IF j = closeIdx THEN TruncateToCloser(lines[j])
                         ELSE lines[j]]
        IN IF closeIdx = 0 THEN [lines |-> erased, raised |-> TRUE]
           ELSE BlockCommentsFrom(erased, closeIdx + 1)
    ELSE BlockCommentsFrom(lines, currentLineIndex + 1)

\* a normalize_block_comments that deletes the lines of a comment instead of
\* overwriting them with the empty string
normalize_block_comments_deleting(lines) ==
    LET r == BlockCommentsFrom(lines, 1)
        kept == {j \in 1..Len(lines) : r.lines[j] # <<>> \/ lines[j] = <<>>}
        RECURSIVE Keep(_)
        Keep(j) == IF j > Len(lines) THEN <<>>
                   ELSE (IF j \in kept THEN <<r.lines[j]>> ELSE <<>>) \o Keep(j + 1)
    IN [lines |-> Keep(1), raised |-> r.raised]

normalize_block_comments(lines) == BlockCommentsFrom(lines, 1)

(***************************************************************************)
(* The normalizer run: build_normalized_lines on a text, then once more on *)
(* its own output.                                                         *)
(***************************************************************************)
MaxTextLen == 5

Chars == {"a", " ", "/", "*", "#", "T", "D", NL}

\* the variables of the other components, at rest
NormOff ==
    /\ text = <<>>
    /\ npc = "off"
    /\ raw_lines = <<>>
    /\ norm_lines = <<>>
    /\ first_out = <<>>
    /\ raised = FALSE

QueryOff ==
    /\ qpc = "off"
    /\ q_old = <<>>
    /\ q_new = <<>>
    /\ q_k = 0
    /\ q_out = <<>>

PipelineOff ==
    /\ pc = "off"
    /\ matcher = <<>>
    /\ frame = <<>>

NormInit ==
    /\ \E n \in 0..MaxTextLen : text \in [1..n -> Chars]
    /\ npc = "read"
    /\ raw_lines = <<>>
    /\ norm_lines = <<>>
    /\ first_out = <<>>
    /\ raised = FALSE
    /\ QueryOff
    /\ PipelineOff

\* raw_lines = read_file(filepath)
ReadFile ==
    /\ npc = "read"
    /\ raw_lines' = read_file(text)
    /\ npc' = "lines"
    /\ UNCHANGED <<text, norm_lines, first_out, raised>>
    /\ UNCHANGED <<qvars, pvars>>

\* norm_lines = [normalize_line(line, ...) for line in raw_lines]
NormalizeLines ==
    /\ npc = "lines"
    /\ norm_lines' = [i \in 1..Len(raw_lines) |-> normalize_line(raw_lines[i])]
    /\ npc' = "block"
    /\ UNCHANGED <<text, raw_lines, first_out, raised>>
    /\ UNCHANGED <<qvars, pvars>>

\* norm_lines = normalize_block_comments(norm_lines)
BlockComments ==
    /\ npc = "block"
    /\ LET r == normalize_block_comments(norm_lines)
       IN /\ norm_lines' = r.lines
          /\ raised' = r.raised
          /\ npc' = IF r.raised THEN "raised" ELSE "done"
    /\ UNCHANGED <<text, raw_lines, first_out>>
    /\ UNCHANGED <<qvars, pvars>>

\* the caller normalizes the returned list a second time
NormalizeAgain ==
    /\ npc = "done"
    /\ first_out' = norm_lines
    /\ LET again == [i \in 1..Len(norm_lines) |-> normalize_line(norm_lines[i])]
           r == normalize_block_comments(again)
       IN /\ norm_lines' = r.lines
          /\ raised' = r.raised
          /\ npc' = IF r.raised THEN "raised2" ELSE "done2"
    /\ UNCHANGED <<text, raw_lines>>
    /\ UNCHANGED <<qvars, pvars>>

NormNext == ReadFile \/ NormalizeLines \/ BlockComments \/ NormalizeAgain

SpecNorm == NormInit /\ [][NormNext]_vars

\* C6: normalization never fails: normalize_block_comments raises on no input;
\* the scan for a closer stops at the end of the file.
NormalizeNeverRaises == raised = FALSE

NormalizeIdempotent ==
    /\ npc # "raised2"
    /\ npc = "done2" => norm_lines = first_out

(***************************************************************************)
(* simhash_index.py: hamming_distance, get_top_k_candidates,               *)
(* generate_candidate_sets.  A fingerprint is HashBits wide.               *)
(***************************************************************************)
HashBits == 1

Hashes == 0..(2 ^ HashBits - 1)

Bit(h, b) == (h \div (2 ^ b)) % 2

\* bin(hash1 ^ hash2).count("1")
hamming_distance(hash1, hash2) ==
    Cardinality({b \in 0..(HashBits - 1) : Bit(hash1, b) # Bit(hash2, b)})

\* sorted(..., key=dist) is stable: x goes after every element whose key is
\* not larger.  An element is <<index, distance>>.
RECURSIVE InsertByKeyUnstable(_, _)
InsertByKeyUnstable(sorted, x) ==
    IF sorted = <<>> THEN <<x>>
    ELSE IF Head(sorted)[2] < x[2]
         THEN <<Head(sorted)>> \o InsertByKeyUnstable(Tail(sorted), x)
         ELSE <<x>> \o sorted

RECURSIVE InsertByKey(_, _)
InsertByKey(sorted, x) ==
    IF sorted = <<>> THEN <<x>>
    ELSE IF Head(sorted)[2] <= x[2]
         THEN <<Head(sorted)>> \o InsertByKey(Tail(sorted), x)
         ELSE <<x>> \o sorted

RECURSIVE SortByKey(_)
SortByKey(s) ==
    IF s = <<>> THEN <<>>
    ELSE InsertByKey(SortByKey(SubSeq(s, 1, Len(s) - 1)), s[Len(s)])

\* heapq.nsmallest(k, distances, key=lambda x: x[1]), which the library
\* documents as sorted(distances, key=...)[:k]
nsmallest(k, distances) == SubSeq(SortByKey(distances), 1, Min(k, Len(distances)))

\* SimhashIndex.get_top_k_candidates: the k nearest <<index, distance>> pairs
get_top_k_candidates(hashes, target_hash, k) ==
    LET distances == [i \in 1..Len(hashes) |->
                        <<i - 1, hamming_distance(target_hash, hashes[i])>>]
    IN nsmallest(k, distances)

\* generate_candidate_sets: old_idx -> the new indices of its top k
generate_candidate_sets(old_hashes, new_hashes, k) ==
    [old_idx \in 0..(Len(old_hashes) - 1) |->
        LET top_k == get_top_k_candidates(new_hashes, old_hashes[old_idx + 1], k)
        IN [p \in 1..Len(top_k) |-> top_k[p][1]]]

MaxQueryOld == 1

MaxQueryNew == 3

QueryInit ==
    /\ qpc = "ask"
    /\ \E m \in 0..MaxQueryOld : q_old \in [1..m -> Hashes]
    /\ \E n \in 0..MaxQueryNew : q_new \in [1..n -> Hashes]
    /\ q_k \in 0..(MaxQueryNew + 1)
    /\ q_out = <<>>
    /\ NormOff
    /\ PipelineOff

GenerateCandidates ==
    /\ qpc = "ask"
    /\ q_out' = generate_candidate_sets(q_old, q_new, q_k)
    /\ qpc' = "got"
    /\ UNCHANGED <<q_old, q_new, q_k>>
    /\ UNCHANGED <<nvars, pvars>>

QueryNext == GenerateCandidates

SpecQuery == QueryInit /\ [][QueryNext]_vars

\* (distance, index) of new index j for old index i, compared lexicographically
QueryDist(i, j) == hamming_distance(q_old[i + 1], q_new[j + 1])

QueryBefore(i, j1, j2) ==
    \/ QueryDist(i, j1) < QueryDist(i, j2)
    \/ QueryDist(i, j1) = QueryDist(i, j2) /\ j1 < j2

\* C9: every old index gets a list of min(k, |new|) pairwise distinct new
\* indices in ascending order of Hamming distance, equal distances in
\* ascending index order, and every index left out comes after every index
\* kept in that order.
TopKNearest ==
    qpc = "got" =>
        /\ DOMAIN q_out = 0..(Len(q_old) - 1)
        /\ \A i \in DOMAIN q_out :
              LET c == q_out[i]
                  kept == {c[p] : p \in 1..Len(c)}
              IN /\ Len(c) = Min(q_k, Len(q_new))
                 /\ kept \subseteq 0..(Len(q_new) - 1)
                 /\ \A p, q \in 1..Len(c) : p < q => QueryBefore(i, c[p], c[q])
                 /\ \A j \in (0..(Len(q_new) - 1)) \ kept :
                       \A p \in 1..Len(c) : QueryBefore(i, c[p], j)

\* C9 witness: a query whose list is cut between two new indices at the same
\* distance and is not in index order.
TopKNearestWitness ==
    /\ qpc = "got"
    /\ Len(q_old) = 1
    /\ Len(q_new) = 3
    /\ q_out[0] = <<1, 0>>
    /\ QueryDist(0, 0) = QueryDist(0, 2)


(***************************************************************************)
(* The normalizer on files of whole lines: a statement, a one-line doc     *)
(* string, and the openers and closers of the three kinds of comment.      *)
(***************************************************************************)
MaxBlockLines == 3

BlockLines == {<<"a">>, <<>>, <<"D", "a", "D">>, <<"D">>, <<"T">>, <<"/", "*", "a">>, <<"a", "*", "/">>}

\* the text of a file of these lines
RECURSIVE JoinNewline(_)
JoinNewline(lines) ==
    IF lines = <<>> THEN <<>>
    ELSE lines[1] \o <<NL>> \o JoinNewline(Tail(lines))

BlockInit ==
    /\ \E n \in 0..MaxBlockLines : \E lines \in [1..n -> BlockLines] :
           text = JoinNewline(lines)
    /\ npc = "read"
    /\ raw_lines = <<>>
    /\ norm_lines = <<>>
    /\ first_out = <<>>
    /\ raised = FALSE
    /\ QueryOff
    /\ PipelineOff

BlockNext == ReadFile \/ NormalizeLines \/ BlockComments

SpecBlock == BlockInit /\ [][BlockNext]_vars

(***************************************************************************)
(* Text helpers for the matcher: character classes, words, str methods     *)
(***************************************************************************)
LowerChars == <<"a", "b", "c", "d", "e", "f", "g", "h", "i", "j", "k", "l", "m",
                "n", "o", "p", "q", "r", "s", "t", "u", "v", "w", "x", "y", "z">>

UpperChars == <<"A", "B", "C", "D", "E", "F", "G", "H", "I", "J", "K", "L", "M",
                "N", "O", "P", "Q", "R", "S", "T", "U", "V", "W", "X", "Y", "Z">>

Lower == {LowerChars[i] : i \in 1..26}

Upper == {UpperChars[i] : i \in 1..26}

Digits == {"0", "1", "2", "3", "4", "5", "6", "7", "8", "9"}

\* \w
WordChars == Lower \cup Upper \cup Digits \cup {"_"}

\* str.lower() on one character
LowerOf(c) ==
    IF c \in Upper THEN LowerChars[CHOOSE i \in 1..26 : UpperChars[i] = c] ELSE c

\* str.lower()
ToLower(s) == [i \in 1..Len(s) |-> LowerOf(s[i])]

\* pat in s
Contains(s, pat) == \E p \in 1..(Len(s) - Len(pat) + 1) : MatchAt(s, pat, p)

\* s.startswith(pat)
StartsWith(s, pat) == MatchAt(s, pat, 1)

\* s.endswith(pat)
EndsWith(s, pat) == MatchAt(s, pat, Len(s) - Len(pat) + 1)

\* s.count(c) for a one-character c
Count(s, c) == Cardinality({p \in 1..Len(s) : s[p] = c})

\* " ".join(parts)
RECURSIVE JoinSpace(_)
JoinSpace(parts) ==
    IF parts = <<>> THEN <<>>
    ELSE IF Len(parts) = 1 THEN parts[1]
    ELSE parts[1] \o <<" ">> \o JoinSpace(Tail(parts))

\* \b at the gap before position p (1..Len(s)+1)
Boundary(s, p) ==
    LET before == p > 1 /\ s[p - 1] \in WordChars
        after == p <= Len(s) /\ s[p] \in WordChars
    IN before # after

\* the end of the maximal run of word characters that starts at p
RECURSIVE RunEnd(_, _)
RunEnd(s, p) ==
    IF p < Len(s) /\ s[p + 1] \in WordChars THEN RunEnd(s, p + 1) ELSE p

\* re.findall(r"\b\w+\b", s) with positions: <<start, end>> of every maximal
\* run of word characters, left to right
RECURSIVE WordRunsFrom(_, _)
WordRunsFrom(s, p) ==
    IF p > Len(s) THEN <<>>
    ELSE IF s[p] \in WordChars
         THEN <<<<p, RunEnd(s, p)>>>> \o WordRunsFrom(s, RunEnd(s, p) + 1)
         ELSE WordRunsFrom(s, p + 1)

WordRuns(s) == WordRunsFrom(s, 1)

\* the words of s, left to right
Words(s) == LET r == WordRuns(s) IN [i \in 1..Len(r) |-> SubSeq(s, r[i][1], r[i][2])]

\* re.search(r"\b" + word + r"\b", s)
HasWord(s, word) ==
    \E p \in 1..(Len(s) - Len(word) + 1) :
        MatchAt(s, word, p) /\ Boundary(s, p) /\ Boundary(s, p + Len(word))

\* s split into its words and the single characters between them
RECURSIVE PiecesFrom(_, _)
PiecesFrom(s, p) ==
    IF p > Len(s) THEN <<>>
    ELSE IF s[p] \in WordChars
         THEN <<SubSeq(s, p, RunEnd(s, p))>> \o PiecesFrom(s, RunEnd(s, p) + 1)
         ELSE <<<<s[p]>>>> \o PiecesFrom(s, p + 1)

RECURSIVE Concat(_)
Concat(parts) == IF parts = <<>> THEN <<>> ELSE Head(parts) \o Concat(Tail(parts))

\* the position after the run of spaces that starts at p
RECURSIVE SkipSpaces(_, _)
SkipSpaces(s, p) == IF p <= Len(s) /\ s[p] = " " THEN SkipSpaces(s, p + 1) ELSE p

(***************************************************************************)
(* The lines the matcher runs on.  A file is a sequence of line numbers    *)
(* into Catalog; every text of Catalog is a normalized line.               *)
(***************************************************************************)
Catalog == <<
    <<>>,
    <<"a", "=", "1", ";">>,
    <<"t", "o", "t", "a", "l", " ", "=", " ", "c", "o", "m", "p", "u", "t", "e", "(", "a", "l", "p", "h", "a", ")", ";">>,
    <<"p", "r", "i", "v", "a", "t", "e", " ", "i", "n", "t", " ", "f", "a", ";">>,
    <<"p", "r", "i", "v", "a", "t", "e", " ", "i", "n", "t", " ", "f", "b", ";">>,
    <<"x", " ", "=", " ", "f", "a", ".", "i", "d", ";">>,
    <<"y", " ", "=", " ", "f", "b", ".", "i", "d", ";">>,
    <<"z", " ", "=", " ", "t", "h", "i", "s", ".", "r", "e", "s", "o", "l", "v", "e", "d", "T", "y", "p", "e", ".", "i", "d", ";">>,
    <<"r", "u", "n", "(", ")", " ", "{">>,
    <<"i", "f", " ", "(", "a", ")", " ", "{">>,
    <<"}">>,
    <<"r", "e", "t", "u", "r", "n", " ", "t", "o", "t", "a", "l", ";">>,
    <<"s", "i", "z", "e", "T", "b", " ", "=", " ", "l", "o", "a", "d", "(", "s", "i", "z", "e", "T", "b", ")", ";">>,
    <<"s", "i", "z", "e", "T", "y", "p", "e", " ", "=", " ", "l", "o", "a", "d", "(", "s", "i", "z", "e", "T", "y", "p", "e", ")", ";">>,
    <<"t", "o", "t", "a", "l", " ", "=", " ", "c", "o", "m", "p", "u", "t", "e">>,
    <<"(", "a", "l", "p", "h", "a", ")", ";">>,
    <<"x", " ", "=", " ", "a", " ", "+", " ", "b", " ", "+", " ", "c", ";">>,
    <<"x", " ", "=", " ", "a", " ", "+", " ", "b", ";">>,
    <<"x", " ", "+", "=", " ", "c", ";">>,
    <<"b", "=", "2", ";">>,
    <<"a", "=", "1", ";", " ", "b", "=", "2", ";">>,
    <<"y", " ", "=", " ", "f", "a", ".", "i", "d", ";">>,
    <<"c", "l", "a", "s", "s", " ", "A", " ", "{">>,
    <<"i", "f", " ", "(", "a", ")", " ", "{", " ", "r", "e", "t", "u", "r", "n", ";", " ", "}">>,
    <<"r", "e", "s", "u", "l", "t", " ", "=", " ", "c", "o", "m", "p", "u", "t", "e", "(", "a", "l", "p", "h", "a", ")", " ", "+", " ", "c", "o", "m", "p", "u", "t", "e", "(", "b", "e", "t", "a", "0", "1", ")", ";">>,
    <<"r", "e", "s", "u", "l", "t", " ", "=", " ", "c", "o", "m", "p", "u", "t", "e", "(", "a", "l", "p", "h", "a", ")">>,
    <<"+", " ", "c", "o", "m", "p", "u", "t", "e", "(", "b", "e", "t", "a", "0", "1", ")", ";">>,
    <<"s", "i", "z", "e", " ", "=", " ", "l", "o", "a", "d", "(", "s", "i", "z", "e", ")", ";">>,
    <<"r", "e", "t", "u", "r", "n", " ", "c", "o", "u", "n", "t", "T", "e", "m", "p", ";">>,
    <<"r", "e", "t", "u", "r", "n", " ", "c", "o", "u", "n", "t", ";">> >>

LineIds == 1..Len(Catalog)

\* lines[idx] for a 0-based idx
TextAt(lines, idx) == Catalog[lines[idx + 1]]

(***************************************************************************)
(* similarity.py.  A score is an integer number of 1/Scale.                *)
(***************************************************************************)
Scale == 10000

\* re.sub(r"\b\d+\b", "NUM", line) on one word or separator
NumStep(piece) ==
    IF piece[1] \in WordChars /\ \A p \in 1..Len(piece) : piece[p] \in Digits
    THEN <<"N", "U", "M">> ELSE piece

\* re.sub(r"\b[_a-zA-Z]\w*\b", "VAR", line) on one word or separator
VarStep(piece) ==
    IF piece[1] \in Lower \cup Upper \cup {"_"} THEN <<"V", "A", "R">> ELSE piece

\* normalize_code: both substitutions replace whole words, so they act on
\* the words of the line one by one
normalize_code(line) ==
    LET pieces == PiecesFrom(line, 1)
    IN Concat([i \in 1..Len(pieces) |-> VarStep(NumStep(pieces[i]))])

\* one row of the edit-distance table, filled from left to right
RECURSIVE LevRow(_, _, _, _, _)
LevRow(prev, c, b, j, row) ==
    IF j > Len(b) THEN row
    ELSE LET subst == prev[j] + (IF b[j] = c THEN 0 ELSE 1)
             best == Min(Min(prev[j + 1] + 1, row[j] + 1), subst)
             next == Append(row, best)
         IN IF Len(next) = j + 1 THEN LevRow(prev, c, b, j + 1, next) ELSE next

\* the table row by row; the result is the last cell of the last row
RECURSIVE LevFrom(_, _, _, _)
LevFrom(a, b, i, prev) ==
    IF i > Len(a) THEN prev[Len(b) + 1]
    ELSE LET row == LevRow(prev, a[i], b, 1, <<prev[1] + 1>>)
         IN IF Len(row) = Len(b) + 1 THEN LevFrom(a, b, i + 1, row) ELSE -1

\* rapidfuzz Levenshtein.distance with unit weights
Levenshtein(a, b) == LevFrom(a, b, 1, [j \in 1..(Len(b) + 1) |-> j - 1])

\* a content_similarity that divides by the length of the first text
ContentRatioOverFirst(a, b) ==
    IF a = <<>> /\ b = <<>> THEN <<1, 1>>
    ELSE IF a = <<>> \/ b = <<>> THEN <<0, 1>>
    ELSE <<Len(normalize_code(a)) - Levenshtein(normalize_code(a), normalize_code(b)),
           Len(normalize_code(a))>>

\* content_similarity as a fraction <<numerator, denominator>>:
\* 1 - distance / max_len
ContentRatio(a, b) ==
    IF a = <<>> /\ b = <<>> THEN <<1, 1>>
    ELSE IF a = <<>> \/ b = <<>> THEN <<0, 1>>
    ELSE LET norm_a == normalize_code(a)
             norm_b == normalize_code(b)
             distance == Levenshtein(norm_a, norm_b)
             max_len == Max(Len(norm_a), Len(norm_b))
         IN <<max_len - distance, max_len>>

content_similarity(a, b) ==
    (ContentRatio(a, b)[1] * Scale) \div ContentRatio(a, b)[2]

\* build_context's context_slice: the lines from index - window to
\* index + window that exist
build_context(lines, index, window) ==
    LET start == Max(0, index - window)
        end == Min(Len(lines), index + window + 1)
    IN [p \in 1..(end - start) |-> lines[start + p]]

\* TfidfVectorizer's analyzer: the lowercased words of two or more characters
Tokens(s) ==
    LET w == Words(ToLower(s))
    IN SelectSeq(w, LAMBDA t : Len(t) >= 2)

\* the largest x with x * x <= n
RECURSIVE IsqrtBetween(_, _, _)
IsqrtBetween(n, lo, hi) ==
    IF lo >= hi THEN lo
    ELSE LET mid == (lo + hi + 1) \div 2
         IN IF mid * mid <= n THEN IsqrtBetween(n, mid, hi)
            ELSE IsqrtBetween(n, lo, mid - 1)

Isqrt(n) == IsqrtBetween(n, 0, Min(n, 46340))

\* the number of times t occurs in tokens
TermCount(tokens, t) == Cardinality({p \in 1..Len(tokens) : tokens[p] = t})

\* the squared weight TfidfVectorizer gives a term of two documents, in
\* fortieths: idf = ln(3 / (1 + df)) + 1, so idf * idf is 1 for a term of both
\* documents and 1.975 for a term of one
IdfSquared(df) == IF df = 2 THEN 40 ELSE 79

\* cosine_similarity of the two TF-IDF vectors of the token lists:
\* dot / sqrt(norm_a * norm_b), which is 1 when the vectors are parallel
TfidfCosine(a_tokens, b_tokens) ==
    LET a_terms == {a_tokens[p] : p \in 1..Len(a_tokens)}
        b_terms == {b_tokens[p] : p \in 1..Len(b_tokens)}
        df(t) == (IF t \in a_terms THEN 1 ELSE 0) + (IF t \in b_terms THEN 1 ELSE 0)
        RECURSIVE Sum(_, _, _)
        Sum(terms, xs, ys) ==
            IF terms = {} THEN 0
            ELSE LET t == CHOOSE u \in terms : TRUE
                 IN TermCount(xs, t) * TermCount(ys, t) * IdfSquared(df(t))
                    + Sum(terms \ {t}, xs, ys)
        dot == Sum(a_terms \cap b_terms, a_tokens, b_tokens)
        norm_a == Sum(a_terms, a_tokens, a_tokens)
        norm_b == Sum(b_terms, b_tokens, b_tokens)
    IN IF dot = 0 THEN 0
       ELSE IF dot * dot = norm_a * norm_b THEN Scale
       ELSE Isqrt(((dot * Scale) \div norm_a) * ((dot * Scale) \div norm_b))

\* the tokens of every catalog line
LineTokens == [id \in LineIds |-> Tokens(Catalog[id])]

\* context_similarity of " ".join(a_slice) and " ".join(b_slice): the words
\* of a joined context are the words of its lines.  A context of blank lines
\* gives 0, and so does the empty vocabulary (ValueError, caught).
context_similarity(a_slice, b_slice) ==
    LET a_blank == \A p \in 1..Len(a_slice) : Strip(Catalog[a_slice[p]]) = <<>>
        b_blank == \A p \in 1..Len(b_slice) : Strip(Catalog[b_slice[p]]) = <<>>
        a_tokens == Concat([p \in 1..Len(a_slice) |-> LineTokens[a_slice[p]]])
        b_tokens == Concat([p \in 1..Len(b_slice) |-> LineTokens[b_slice[p]]])
    IN IF a_blank \/ b_blank THEN 0
       ELSE IF a_tokens = <<>> /\ b_tokens = <<>> THEN 0
       ELSE TfidfCosine(a_tokens, b_tokens)

\* weight_content = 0.6, weight_context = 0.4
WeightContent == 6

WeightContext == 4

\* content_similarity of every pair of catalog lines, as a fraction
ContentTable == [a \in LineIds, b \in LineIds |-> ContentRatio(Catalog[a], Catalog[b])]

\* weight_content * c_sim + weight_context * x_sim, the product with the
\* fraction c_sim taken in one division so that a score that is a multiple
\* of 1/Scale is exact
Weighted(c_sim, x_sim) ==
    (WeightContent * Scale * c_sim[1]) \div (10 * c_sim[2])
        + (WeightContext * x_sim) \div 10

\* combined_similarity(a, b, a_context, b_context) for lines a and b of the
\* catalog and their context slices
combined_similarity(a, b, a_slice, b_slice) ==
    Weighted(ContentTable[a, b], context_similarity(a_slice, b_slice))

\* combined_similarity(a, b, "", "") for two texts: the context similarity
\* of two empty contexts is 0.0
text_similarity(a, b) == Weighted(ContentRatio(a, b), 0)

\* combined_similarity(a, b, "", "") for lines a and b of the catalog
line_similarity(a, b) == Weighted(ContentTable[a, b], 0)

(***************************************************************************)
(* The regular expressions of matcher.py.  A pattern is a sequence of      *)
(* elements: a literal text, \s* ("sp0"), \s+ ("sp1"), \w+ ("word") or a   *)
(* final .* ("any").  In every pattern of the program a \w+ or \s* is      *)
(* followed by an element that cannot start with a character of the same   *)
(* class, so the greedy match is the only match from a given position.     *)
(***************************************************************************)
Lit(t) == [kind |-> "lit", text |-> t]

Sp0 == [kind |-> "sp0", text |-> <<>>]

Sp1 == [kind |-> "sp1", text |-> <<>>]

Word == [kind |-> "word", text |-> <<>>]

AnyText == [kind |-> "any", text |-> <<>>]

\* the position just after the match of elems[e..] that starts at p, 0 if
\* there is none
RECURSIVE MatchFrom(_, _, _, _)
MatchFrom(s, p, elems, e) ==
    IF e > Len(elems) THEN p
    ELSE LET el == elems[e]
         IN CASE el.kind = "lit" ->
                    IF MatchAt(s, el.text, p)
                    THEN MatchFrom(s, p + Len(el.text), elems, e + 1) ELSE 0
              [] el.kind = "sp0" -> MatchFrom(s, SkipSpaces(s, p), elems, e + 1)
              [] el.kind = "sp1" ->
                    IF p <= Len(s) /\ s[p] = " "
                    THEN MatchFrom(s, SkipSpaces(s, p), elems, e + 1) ELSE 0
              [] el.kind = "word" ->
                    IF p <= Len(s) /\ s[p] \in WordChars
                    THEN MatchFrom(s, RunEnd(s, p) + 1, elems, e + 1) ELSE 0
              [] el.kind = "any" -> Len(s) + 1

\* re.search(pattern, s): the leftmost start of a match, 0 if there is none
Search(s, elems) ==
    LET hits == {p \in 1..(Len(s) + 1) : MatchFrom(s, p, elems, 1) # 0}
    IN IF hits = {} THEN 0 ELSE CHOOSE p \in hits : \A q \in hits : p <= q

\* the text of the final \w+ of the leftmost match of a pattern that ends in
\* one: match.group(1)
LastWord(s, elems) ==
    LET p == Search(s, elems)
        stop == MatchFrom(s, p, elems, 1)
        before == MatchFrom(s, p, SubSeq(elems, 1, Len(elems) - 1), 1)
    IN SubSeq(s, before, stop - 1)

Modifiers == <<<<"p", "u", "b", "l", "i", "c">>, <<"p", "r", "i", "v", "a", "t", "e">>, <<"p", "r", "o", "t", "e", "c", "t", "e", "d">>>>

\* (?:public|private|protected) at position p: the position after it, 0 if
\* none is there
ModifierEnd(s, p) ==
    IF \E m \in 1..3 : MatchAt(s, Modifiers[m], p)
    THEN p + Len(Modifiers[CHOOSE m \in 1..3 : MatchAt(s, Modifiers[m], p)])
    ELSE 0

\* any(modifier in line for modifier in ['public', 'private', 'protected'])
HasModifier(line) == \E m \in 1..3 : Contains(line, Modifiers[m])

\* (?:\w+\s+)*\s*(\w+)\s*\( from position p: <<start, end>> of the last word
\* before the parenthesis, <<0, 0>> if the text does not have that form
RECURSIVE HeaderWords(_, _)
HeaderWords(s, p) ==
    IF p > Len(s) \/ s[p] \notin WordChars THEN <<0, 0>>
    ELSE LET e == RunEnd(s, p)
             q == SkipSpaces(s, e + 1)
         IN IF q <= Len(s) /\ s[q] = "(" THEN <<p, e>>
            ELSE IF q > e + 1 THEN HeaderWords(s, q)
            ELSE <<0, 0>>

\* method_pattern.match(stripped): the method name (group 1), <<>> if the
\* line is no method header.  The optional modifier is tried first.
MethodName(stripped) ==
    LET start == SkipSpaces(stripped, 1)
        m == ModifierEnd(stripped, start)
        with == IF m = 0 THEN <<0, 0>> ELSE HeaderWords(stripped, SkipSpaces(stripped, m))
        without == HeaderWords(stripped, start)
        w == IF with # <<0, 0>> THEN with ELSE without
    IN IF w = <<0, 0>> THEN <<>> ELSE SubSeq(stripped, w[1], w[2])

\* (?:\w+\s+)+\s*(\w+)\s*; from position p, after n words: <<start, end,
\* stop>> of the field name and the position after the semicolon, <<0, 0, 0>>
\* if the text does not have that form
RECURSIVE FieldWords(_, _, _)
FieldWords(s, p, n) ==
    IF p > Len(s) \/ s[p] \notin WordChars THEN <<0, 0, 0>>
    ELSE LET e == RunEnd(s, p)
             q == SkipSpaces(s, e + 1)
         IN IF n >= 1 /\ q <= Len(s) /\ s[q] = ";" THEN <<p, e, q + 1>>
            ELSE IF q > e + 1 THEN FieldWords(s, q, n + 1)
            ELSE <<0, 0, 0>>

\* field_pattern at position p
FieldAt(s, p) ==
    LET m == ModifierEnd(s, p)
    IN IF m = 0 \/ m > Len(s) \/ s[m] # " " THEN <<0, 0, 0>>
       ELSE FieldWords(s, SkipSpaces(s, m), 0)

\* field_pattern.findall(line): the names of the non-overlapping matches
RECURSIVE FindFields(_, _)
FindFields(s, p) ==
    IF p > Len(s) THEN {}
    ELSE LET f == FieldAt(s, p)
         IN IF f = <<0, 0, 0>> THEN FindFields(s, p + 1)
            ELSE {SubSeq(s, f[1], f[2])} \cup FindFields(s, f[3])

(***************************************************************************)
(* matcher.py: what detect_structural_changes records.  A dict is the      *)
(* sequence of its entries in insertion order, the key first; None is -1.  *)
(***************************************************************************)
None == -1

DictHas(d, key) == \E p \in 1..Len(d) : d[p][1] = key

DictGet(d, key) == d[CHOOSE p \in 1..Len(d) : d[p][1] = key]

\* d[key] = value: a key that is already there keeps its place
DictPut(d, entry) ==
    IF DictHas(d, entry[1])
    THEN [p \in 1..Len(d) |-> IF d[p][1] = entry[1] THEN entry ELSE d[p]]
    ELSE Append(d, entry)

Global == <<"g", "l", "o", "b", "a", "l">>

\* _find_method_boundaries from line i on; an entry is <<name, start, end>>
RECURSIVE MethodBoundariesFrom(_, _, _, _, _, _)
MethodBoundariesFrom(lines, i, boundaries, current_method, brace_count, method_start) ==
    IF i >= Len(lines) THEN boundaries
    ELSE LET line == TextAt(lines, i)
             name == MethodName(Strip(line))
             opened == Count(line, "{")
             closed == Count(line, "}")
         IN IF name # <<>> THEN
                IF current_method = <<>>
                THEN MethodBoundariesFrom(lines, i + 1, boundaries, name, opened, i)
                ELSE MethodBoundariesFrom(lines, i + 1, boundaries, current_method,
                                          brace_count + opened, method_start)
            ELSE IF current_method # <<>> THEN
                IF brace_count + opened - closed <= 0 /\ closed > 0
                THEN MethodBoundariesFrom(lines, i + 1,
                         DictPut(boundaries, <<current_method, method_start, i>>),
                         <<>>, 0, method_start)
                ELSE MethodBoundariesFrom(lines, i + 1, boundaries, current_method,
                                          brace_count + opened - closed, method_start)
            ELSE MethodBoundariesFrom(lines, i + 1, boundaries, current_method,
                                      brace_count, method_start)

find_method_boundaries(lines) == MethodBoundariesFrom(lines, 0, <<>>, <<>>, 0, 0)

\* _get_method_context: the first method, in insertion order, whose range
\* holds line_idx
get_method_context(line_idx, boundaries) ==
    LET inside == {p \in 1..Len(boundaries) :
                      boundaries[p][2] <= line_idx /\ line_idx <= boundaries[p][3]}
    IN IF inside = {} THEN Global
       ELSE boundaries[CHOOSE p \in inside : \A q \in inside : p <= q][1]

\* _extract_fields
extract_fields(lines) ==
    UNION {FindFields(Catalog[lines[p]], 1) : p \in 1..Len(lines)}

\* old_fields - new_fields
removed_fields(old_lines, new_lines) ==
    extract_fields(old_lines) \ extract_fields(new_lines)

\* the first line that holds the field name and a modifier, None if none does
DeclarationLine(old_lines, field) ==
    LET hits == {i \in 0..(Len(old_lines) - 1) :
                    Contains(TextAt(old_lines, i), field) /\ HasModifier(TextAt(old_lines, i))}
    IN IF hits = {} THEN None ELSE CHOOSE i \in hits : \A j \in hits : i <= j

\* _detect_field_changes when last is the removed field the loop over the
\* set visits last: every field the loop visits overwrites the two entries,
\* and every removed field has a declaration line.  structural_changes is
\* <<field_removed, removed_field_name>>.
detect_field_changes(structural_changes, old_lines, new_lines, last) ==
    IF last \notin removed_fields(old_lines, new_lines) THEN structural_changes
    ELSE <<DeclarationLine(old_lines, last), last>>

NoStructuralChanges == <<None, <<>>>>

\* _extract_field_usage_pattern: the text that describes the use of the field
\* in the line, <<>> for None
extract_field_usage_pattern(line, field_name) ==
    LET access == <<Lit(field_name), Lit(<<".">>), Word>>
        comparison == <<Lit(field_name), Sp0, Lit(<<"=", "=">>), Sp0, Word>>
        assignment == <<Lit(field_name), Sp0, Lit(<<"=">>), Sp0>>
        grouping == <<Lit(<<"(">>), Sp0, Lit(field_name), Sp0, Lit(<<")">>)>>
    IN IF Search(line, access) # 0
       THEN field_name \o <<".">> \o LastWord(line, access)
       ELSE IF Search(line, comparison) # 0
       THEN field_name \o <<" ", "=", "=", " ">> \o LastWord(line, comparison)
       ELSE IF Search(line, assignment) # 0 THEN field_name \o <<" ", "a", "s", "s", "i", "g", "n", "m", "e", "n", "t">>
       ELSE IF Search(line, grouping) # 0 THEN <<"(">> \o field_name \o <<")">>
       ELSE <<>>

\* the three patterns of _detect_semantic_equivalences:
\* <<old_pattern, new_pattern, confidence>>
SemanticPatterns == <<
    <<  <<Word, Lit(<<".", "i", "d">>)>>,
        <<Lit(<<"t", "h", "i", "s", ".", "r", "e", "s", "o", "l", "v", "e", "d", "T", "y", "p", "e", ".", "i", "d">>)>>,
        8000 >>,
    <<  <<Lit(<<"r", "e", "t", "u", "r", "n">>), Sp1, Lit(<<"t", "h", "i", "s", ".", "e", "x", "p", "r", "e", "s", "s", "i", "o", "n", "T", "y", "p", "e">>), Sp0, Lit(<<"=">>), Sp0,
          Word, Sp0, Lit(<<"=">>), Sp0, AnyText>>,
        <<Lit(<<"r", "e", "t", "u", "r", "n">>), Sp1, Lit(<<"t", "h", "i", "s", ".", "r", "e", "s", "o", "l", "v", "e", "d", "T", "y", "p", "e">>)>>,
        7000 >>,
    <<  <<Lit(<<"i", "f">>), Sp0, Lit(<<"(">>), Sp0, Word, Sp0, Lit(<<"=", "=">>), Sp0, Lit(<<"n", "u", "l", "l">>),
          Sp0, Lit(<<")">>), Sp0, Lit(<<"r", "e", "t", "u", "r", "n">>), Sp1, Lit(<<"n", "u", "l", "l">>)>>,
        <<Lit(<<"i", "f">>), Sp0, Lit(<<"(">>), Sp0, Word, Sp0, Lit(<<"!", "=">>), Sp0, Lit(<<"n", "u", "l", "l">>),
          Sp0, Lit(<<")">>), Sp0, Lit(<<"{">>)>>,
        6000 >> >>

\* _check_semantic_patterns: the largest confidence * 0.5 over the loaded
\* patterns that match both lines; semantic_patterns is the number of
\* patterns the instance has loaded
check_semantic_patterns(semantic_patterns, old_line, new_line) ==
    LET both == {n \in 1..semantic_patterns :
                    /\ Search(old_line, SemanticPatterns[n][1]) # 0
                    /\ Search(new_line, SemanticPatterns[n][2]) # 0}
    IN IF both = {} THEN 0
       ELSE LET n == CHOOSE n \in both :
                        \A m \in both : SemanticPatterns[n][3] >= SemanticPatterns[m][3]
            IN SemanticPatterns[n][3] \div 2

\* s.split(sep)[-1]
RECURSIVE LastPiece(_, _)
LastPiece(s, sep) ==
    LET p == Find(s, sep, 1)
    IN IF p = 0 THEN s ELSE LastPiece(SubSeq(s, p + Len(sep), Len(s)), sep)

\* s.split(sep)[0]
FirstPiece(s, sep) ==
    LET p == Find(s, sep, 1)
    IN IF p = 0 THEN s ELSE SubSeq(s, 1, p - 1)

\* re.sub(r"\b" + word + r"\b", repl, s)
ReplaceWord(s, word, repl) ==
    LET pieces == PiecesFrom(s, 1)
    IN Concat([i \in 1..Len(pieces) |-> IF pieces[i] = word THEN repl ELSE pieces[i]])

\* re.sub(r"\b\w+Binding\b", "TYPE", s)
ReplaceBindings(s) ==
    LET pieces == PiecesFrom(s, 1)
        binding(w) == Len(w) > 7 /\ w[1] \in WordChars /\ EndsWith(w, <<"B", "i", "n", "d", "i", "n", "g">>)
    IN Concat([i \in 1..Len(pieces) |-> IF binding(pieces[i]) THEN <<"T", "Y", "P", "E">> ELSE pieces[i]])

\* _calculate_replacement_confidence
calculate_replacement_confidence(old_pattern, new_line, removed_field) ==
    LET typed == <<Lit(<<"=", "=">>), Sp0, Word>>
        old_type == Strip(LastPiece(old_pattern, <<"=", "=">>))
        kept == IF Contains(old_pattern, <<".", "i", "d">>) /\ Contains(new_line, <<".", "i", "d">>) THEN 7000
                ELSE IF Contains(old_pattern, <<"=", "=">>) /\ Contains(new_line, <<"=", "=">>) THEN
                    IF Search(new_line, typed) # 0 /\ old_type = LastWord(new_line, typed)
                    THEN 9000 ELSE 4000
                ELSE IF Contains(old_pattern, <<"a", "s", "s", "i", "g", "n", "m", "e", "n", "t">>) /\ Contains(new_line, <<"=">>)
                THEN 5000
                ELSE 0
        old_simple == ReplaceWord(old_pattern, removed_field, <<"F", "I", "E", "L", "D">>)
        new_simple == ReplaceBindings(new_line)
        alike == IF text_similarity(old_simple, new_simple) > 5000 THEN 3000 ELSE 0
    IN Min(kept + alike, Scale)

\* _get_expected_replacement_area: the bounds <<start, end>> of the range
get_expected_replacement_area(old_idx, old_lines, new_lines, old_methods, new_methods) ==
    LET start == Max(0, old_idx - 15)
        end == Min(Len(new_lines), old_idx + 15)
        old_method == get_method_context(old_idx, old_methods)
    IN IF old_lines # <<>> /\ DictHas(new_methods, old_method)
       THEN <<Min(start, DictGet(new_methods, old_method)[2]),
              Max(end, DictGet(new_methods, old_method)[3])>>
       ELSE <<start, end>>

\* the best replacement after a line with this confidence: <<line_idx,
\* confidence>>, <<None, 0>> before the first
BetterReplacement(best, new_idx, confidence) ==
    IF confidence > best[2] THEN <<new_idx, confidence>> ELSE best

\* the loop of _find_field_replacement from new_idx on, and its return
RECURSIVE FieldReplacementFrom(_, _, _, _, _, _, _)
FieldReplacementFrom(old_pattern, new_lines, removed_field, semantic_patterns, new_idx, end, best) ==
    IF new_idx >= end THEN IF best[2] > 3000 THEN best ELSE <<None, 0>>
    ELSE FieldReplacementFrom(old_pattern, new_lines, removed_field, semantic_patterns,
             new_idx + 1, end,
             IF HasWord(TextAt(new_lines, new_idx), removed_field) THEN best
             ELSE BetterReplacement(best, new_idx,
                      Min(Scale, calculate_replacement_confidence(old_pattern,
                                     TextAt(new_lines, new_idx), removed_field)
                                 + check_semantic_patterns(semantic_patterns, old_pattern,
                                                           TextAt(new_lines, new_idx)))))

\* _find_field_replacement: <<line_idx, confidence>>, <<None, 0>> for None
find_field_replacement(old_pattern, new_lines, removed_field, semantic_patterns, area) ==
    FieldReplacementFrom(old_pattern, new_lines, removed_field, semantic_patterns,
                         area[1], area[2], <<None, 0>>)

\* self.field_usage_replacements[old_idx] = {...} if replacement; an entry
\* of field_usage_replacements is <<old_idx, replacement_line, confidence>>
PutReplacement(replacements, old_idx, replacement) ==
    IF replacement[1] = None THEN replacements
    ELSE DictPut(replacements, <<old_idx, replacement[1], replacement[2]>>)

\* the last loop of _detect_field_usage_replacements for one old line, whose
\* usage pattern is <<>> if it is no usage or has no pattern
UsageReplacement(replacements, old_lines, new_lines, removed_field, semantic_patterns, old_methods, new_methods, i, old_usage_pattern) ==
    IF old_usage_pattern = <<>> THEN replacements
    ELSE PutReplacement(replacements, i,
             find_field_replacement(old_usage_pattern, new_lines, removed_field,
                 semantic_patterns,
                 get_expected_replacement_area(i, old_lines, new_lines,
                                               old_methods, new_methods)))

\* _detect_field_usage_replacements from old line i on
RECURSIVE FieldUsageFrom(_, _, _, _, _, _, _, _)
FieldUsageFrom(replacements, old_lines, new_lines, removed_field, semantic_patterns, old_methods, new_methods, i) ==
    IF i >= Len(old_lines) THEN replacements
    ELSE FieldUsageFrom(
             UsageReplacement(replacements, old_lines, new_lines, removed_field,
                 semantic_patterns, old_methods, new_methods, i,
                 IF HasWord(TextAt(old_lines, i), removed_field)
                 THEN extract_field_usage_pattern(TextAt(old_lines, i), removed_field)
                 ELSE <<>>),
             old_lines, new_lines, removed_field, semantic_patterns,
             old_methods, new_methods, i + 1)

detect_field_usage_replacements(replacements, structural_changes, old_lines, new_lines, semantic_patterns, old_methods, new_methods) ==
    IF structural_changes[2] = <<>> THEN replacements
    ELSE FieldUsageFrom(replacements, old_lines, new_lines, structural_changes[2],
                        semantic_patterns, old_methods, new_methods, 0)

\* _analyze_control_flow over lines[i..end] (0-based, inclusive); flow is
\* <<early_returns, conditional_blocks, null_checks>>.  The counters
\* nested_blocks and assignments are never read.
RECURSIVE ControlFlowFrom(_, _, _, _, _)
ControlFlowFrom(lines, i, end, brace_level, flow) ==
    IF i > end \/ i >= Len(lines) THEN flow
    ELSE LET line == TextAt(lines, i)
             stripped == Strip(line)
             early == IF Contains(stripped, <<"r", "e", "t", "u", "r", "n">>) /\ brace_level > 0 THEN 1 ELSE 0
             cond == IF \/ Contains(stripped, <<"i", "f">>) \/ Contains(stripped, <<"e", "l", "s", "e">>)
                        \/ Contains(stripped, <<"f", "o", "r">>) \/ Contains(stripped, <<"w", "h", "i", "l", "e">>)
                     THEN 1 ELSE 0
             nulls == IF Contains(stripped, <<"!", "=", " ", "n", "u", "l", "l">>) \/ Contains(stripped, <<"=", "=", " ", "n", "u", "l", "l">>)
                      THEN 1 ELSE 0
             next == <<flow[1] + early, flow[2] + cond, flow[3] + nulls>>
         IN ControlFlowFrom(lines, i + 1, end,
                                 brace_level + Count(line, "{") - Count(line, "}"), next)

analyze_control_flow(lines, start, end) == ControlFlowFrom(lines, start, end, 0, <<0, 0, 0>>)

is_major_rewrite(old_flow, new_flow) ==
    Abs(old_flow[1] - new_flow[1]) >= 2 \/ Abs(old_flow[2] - new_flow[2]) >= 2

calculate_rewrite_confidence(old_flow, new_flow) ==
    Min((IF old_flow[1] # new_flow[1] THEN 4000 ELSE 0)
        + (IF old_flow[2] # new_flow[2] THEN 3000 ELSE 0)
        + (IF old_flow[3] # new_flow[3] THEN 2000 ELSE 0), Scale)

\* _detect_logic_rewrites from the p-th old method on; an entry of
\* logic_rewrites is <<method_name, old_start, new_start, confidence>>
RECURSIVE LogicRewritesFrom(_, _, _, _, _, _)
LogicRewritesFrom(rewrites, old_lines, new_lines, old_methods, new_methods, p) ==
    IF p > Len(old_methods) THEN rewrites
    ELSE LET method_name == old_methods[p][1]
             new_method == DictGet(new_methods, method_name)
             old_flow == analyze_control_flow(old_lines, old_methods[p][2], old_methods[p][3])
             new_flow == analyze_control_flow(new_lines, new_method[2], new_method[3])
             next == IF DictHas(new_methods, method_name) /\ is_major_rewrite(old_flow, new_flow)
                     THEN DictPut(rewrites, <<method_name, old_methods[p][2], new_method[2],
                                              calculate_rewrite_confidence(old_flow, new_flow)>>)
                     ELSE rewrites
         IN LogicRewritesFrom(next, old_lines, new_lines, old_methods, new_methods, p + 1)

detect_logic_rewrites(rewrites, old_lines, new_lines, old_methods, new_methods) ==
    LogicRewritesFrom(rewrites, old_lines, new_lines, old_methods, new_methods, 1)

(***************************************************************************)
(* matcher.py: _detect_variable_renames.  A variable context is a record;  *)
(* variable_contexts of one side is the sequence of the contexts in the    *)
(* order the variables first occur.  A rename table is a dict with entries *)
(* <<old_var, new_var, confidence>>.                                       *)
(***************************************************************************)
DeclarationWords == <<<<"c", "l", "a", "s", "s", " ">>, <<"i", "n", "t", "e", "r", "f", "a", "c", "e", " ">>, <<"e", "n", "u", "m", " ">>, <<"p", "u", "b", "l", "i", "c", " ">>, <<"p", "r", "i", "v", "a", "t", "e", " ">>,
                      <<"p", "r", "o", "t", "e", "c", "t", "e", "d", " ">>>>

JavaKeywords == {<<"i", "f">>, <<"e", "l", "s", "e">>, <<"f", "o", "r">>, <<"w", "h", "i", "l", "e">>, <<"r", "e", "t", "u", "r", "n">>, <<"n", "e", "w">>, <<"t", "h", "i", "s">>,
                 <<"s", "u", "p", "e", "r">>, <<"n", "u", "l", "l">>, <<"t", "r", "u", "e">>, <<"f", "a", "l", "s", "e">>, <<"f", "i", "n", "a", "l">>}

CommonTypes == {<<"i", "n", "t">>, <<"l", "o", "n", "g">>, <<"d", "o", "u", "b", "l", "e">>, <<"f", "l", "o", "a", "t">>, <<"b", "o", "o", "l", "e", "a", "n">>, <<"c", "h", "a", "r">>, <<"b", "y", "t", "e">>,
                <<"s", "h", "o", "r", "t">>, <<"v", "o", "i", "d">>, <<"S", "t", "r", "i", "n", "g">>}

\* a word that r"\b[a-z][a-zA-Z0-9]*\b" matches: the pattern cannot stop
\* inside a run of word characters, so it matches whole runs without "_"
IsLowerName(w) ==
    /\ w[1] \in Lower
    /\ \A p \in 1..Len(w) : w[p] \in Lower \cup Upper \cup Digits

\* _extract_variables_from_line
extract_variables_from_line(line) ==
    IF \E d \in 1..Len(DeclarationWords) : Contains(line, DeclarationWords[d]) THEN <<>>
    ELSE SelectSeq(Words(line),
                   LAMBDA w : /\ IsLowerName(w)
                              /\ w \notin JavaKeywords
                              /\ w \notin CommonTypes
                              /\ Len(w) > 2)

\* _extract_operations_from_line
extract_operations_from_line(line, var) ==
    IF ~HasWord(line, var) THEN {}
    ELSE (IF Contains(line, <<".", "i", "d">>) /\ Contains(line, var) THEN {"id_access"} ELSE {})
         \cup (IF Contains(line, <<"=", "=">>) /\ Contains(line, var) THEN {"comparison"} ELSE {})
         \cup (IF Contains(line, <<"=">>) /\ Contains(FirstPiece(line, <<"=">>), var)
               THEN {"assignment"} ELSE {})
         \cup (IF Contains(line, <<"r", "e", "t", "u", "r", "n">>) /\ Contains(line, var) THEN {"return"} ELSE {})
         \cup (IF Contains(line, <<"(">>) /\ Contains(line, var) THEN {"method_call"} ELSE {})
         \cup (IF Contains(line, <<"n", "e", "w", " ">>) /\ Contains(line, var)
               THEN {"instantiation"} ELSE {})
         \cup (IF Contains(line, <<".">>) /\ Contains(FirstPiece(line, <<".">>), var)
               THEN {"field_access"} ELSE {})

\* _normalize_context on one word or separator: a lower-case name becomes
\* VAR, which the second substitution turns into TYPE with every other
\* capitalised name; a number becomes NUM
NormalizeContextPiece(w) ==
    IF w[1] \in Lower \cup Upper /\ \A p \in 1..Len(w) : w[p] \in Lower \cup Upper \cup Digits
    THEN <<"T", "Y", "P", "E">>
    ELSE IF \A p \in 1..Len(w) : w[p] \in Digits THEN <<"N", "U", "M">>
    ELSE w

normalize_context(context) ==
    LET pieces == PiecesFrom(context, 1)
    IN Concat([i \in 1..Len(pieces) |-> NormalizeContextPiece(pieces[i])])

\* ' '.join(lines[start:end])
JoinLines(lines, start, end) ==
    JoinSpace([p \in 1..(end - start) |-> Catalog[lines[start + p]]])

\* the variables of a side in the order they first occur
RECURSIVE VariableOrder(_, _, _)
VariableOrder(lines, i, seen) ==
    IF i >= Len(lines) THEN seen
    ELSE LET vs == extract_variables_from_line(TextAt(lines, i))
             RECURSIVE AddAll(_, _)
             AddAll(acc, p) ==
                 IF p > Len(vs) THEN acc
                 ELSE AddAll(IF \E q \in 1..Len(acc) : acc[q] = vs[p]
                             THEN acc ELSE Append(acc, vs[p]), p + 1)
         IN VariableOrder(lines, i + 1, AddAll(seen, 1))

\* the context _build_variable_contexts leaves for one variable
VariableContext(lines, boundaries, var) ==
    LET vars_of(i) == extract_variables_from_line(TextAt(lines, i))
        at == {i \in 0..(Len(lines) - 1) : \E p \in 1..Len(vars_of(i)) : vars_of(i)[p] = var}
        times(i) == Cardinality({p \in 1..Len(vars_of(i)) : vars_of(i)[p] = var})
        RECURSIVE Total(_)
        Total(is) == IF is = {} THEN 0
                     ELSE LET i == CHOOSE j \in is : TRUE IN times(i) + Total(is \ {i})
    IN [name |-> var,
        usage_count |-> Total(at),
        methods |-> {get_method_context(i, boundaries) : i \in at},
        operations |-> UNION {extract_operations_from_line(TextAt(lines, i), var) : i \in at},
        surrounding_contexts |->
            {normalize_context(JoinLines(lines, Max(0, i - 3), Min(Len(lines), i + 4))) :
                i \in at}]

\* _build_variable_contexts for one side
build_variable_contexts(lines, boundaries) ==
    LET order == VariableOrder(lines, 0, <<>>)
    IN [p \in 1..Len(order) |-> VariableContext(lines, boundaries, order[p])]

HasContext(contexts, var) == \E p \in 1..Len(contexts) : contexts[p].name = var

ContextOf(contexts, var) == contexts[CHOOSE p \in 1..Len(contexts) : contexts[p].name = var]

\* (overlap / union) * weight, 0 for an empty union
Jaccard(a, b, weight) ==
    IF a \cup b = {} THEN 0
    ELSE (Cardinality(a \cap b) * weight) \div Cardinality(a \cup b)

\* _calculate_context_similarity
calculate_context_similarity(old_context, new_context) ==
    Jaccard(old_context.methods, new_context.methods, 3000)
    + Jaccard(old_context.operations, new_context.operations, 4000)
    + Jaccard(old_context.surrounding_contexts, new_context.surrounding_contexts, 3000)

\* _contexts_are_compatible
contexts_are_compatible(old_contexts, new_contexts, old_var, new_var) ==
    /\ HasContext(old_contexts, old_var)
    /\ HasContext(new_contexts, new_var)
    /\ ContextOf(old_contexts, old_var).methods
           \cap ContextOf(new_contexts, new_var).methods # {}
    /\ ContextOf(old_contexts, old_var).operations
           \cap ContextOf(new_contexts, new_var).operations # {}

\* the best new variable for an old one, scores[p] being the score of the
\* p-th new variable: the first, in new order, with the largest score above
\* the floor; <<>> if there is none.  Both loops skip a variable used fewer
\* than two times.
BestNewVariable(old_context, new_contexts, scores, floor) ==
    LET ok == {p \in 1..Len(new_contexts) :
                  new_contexts[p].usage_count >= 2 /\ scores[p] > floor}
    IN IF old_context.usage_count < 2 \/ ok = {} THEN <<>>
       ELSE LET p == CHOOSE p \in ok :
                        \A q \in ok : \/ scores[p] > scores[q]
                                      \/ scores[p] = scores[q] /\ p <= q
            IN <<old_context.name, new_contexts[p].name, scores[p]>>

\* the entries a loop over the old variables leaves, in the order of the
\* loop: proposals[p] is the entry of the p-th old variable, <<>> for none
CollectRenames(proposals) == SelectSeq(proposals, LAMBDA e : e # <<>>)

\* _find_variable_renames_by_context
find_variable_renames_by_context(old_contexts, new_contexts) ==
    CollectRenames([o \in 1..Len(old_contexts) |->
        BestNewVariable(old_contexts[o], new_contexts,
            [p \in 1..Len(new_contexts) |->
                calculate_context_similarity(old_contexts[o], new_contexts[p])],
            6000)])

\* re.match(r"(\w+)" + suffix, name): the start of the last occurrence of the
\* suffix that has a character before it, 0 if there is none
SuffixStart(name, suffix) ==
    LET hits == {p \in 2..Len(name) : MatchAt(name, suffix, p)}
    IN IF hits = {} THEN 0 ELSE CHOOSE p \in hits : \A q \in hits : p >= q

\* re.sub(r"(\w+)" + suffix, r"\1" + repl, name) for a name the pattern matches
SuffixRename(name, suffix, repl) ==
    LET p == SuffixStart(name, suffix)
    IN SubSeq(name, 1, p - 1) \o repl \o SubSeq(name, p + Len(suffix), Len(name))

\* the common_patterns of _find_variable_renames_by_pattern
CommonPatterns == <<
    <<<<"T", "b">>, <<"T", "y", "p", "e">>, 9000>>,
    <<<<"T", "e", "m", "p">>, <<>>, 7000>>,
    <<<<"V", "a", "r">>, <<>>, 7000>>,
    <<<<"O", "l", "d">>, <<>>, 6000>>,
    <<<<"N", "e", "w">>, <<>>, 6000>>,
    <<<<"B", "i", "n", "d", "i", "n", "g">>, <<"T", "y", "p", "e">>, 8000>> >>

\* the entry _find_variable_renames_by_pattern records for one old variable:
\* the first pattern that matches its name and predicts a compatible variable
\* of the new side; <<>> if there is none
PatternRename(old_contexts, new_contexts, c) ==
    LET predicted(n) == SuffixRename(c.name, CommonPatterns[n][1], CommonPatterns[n][2])
        ok == {n \in 1..Len(CommonPatterns) :
                  /\ SuffixStart(c.name, CommonPatterns[n][1]) # 0
                  /\ HasContext(new_contexts, predicted(n))
                  /\ contexts_are_compatible(old_contexts, new_contexts,
                                             c.name, predicted(n))}
    IN IF ok = {} THEN <<>>
       ELSE LET n == CHOOSE n \in ok : \A m \in ok : n <= m
            IN <<c.name, predicted(n), CommonPatterns[n][3]>>

\* _find_variable_renames_by_pattern
find_variable_renames_by_pattern(old_contexts, new_contexts) ==
    CollectRenames([o \in 1..Len(old_contexts) |->
        PatternRename(old_contexts, new_contexts, old_contexts[o])])

\* the number of leading characters two names share
RECURSIVE CommonPrefix(_, _)
CommonPrefix(a, b) ==
    IF a = <<>> \/ b = <<>> \/ Head(a) # Head(b) THEN 0
    ELSE 1 + CommonPrefix(Tail(a), Tail(b))

\* the rename_patterns of _calculate_name_similarity: a suffix or a prefix
\* transform, <<kind, affix, replacement, confidence>>
RenamePatterns == <<
    <<"suffix", <<"T", "b">>, <<"T", "y", "p", "e">>, 9000>>,
    <<"suffix", <<"B", "i", "n", "d", "i", "n", "g">>, <<"T", "y", "p", "e">>, 8000>>,
    <<"prefix", <<"t", "e", "m", "p">>, <<>>, 7000>>,
    <<"prefix", <<"o", "l", "d">>, <<>>, 6000>>,
    <<"prefix", <<"n", "e", "w">>, <<>>, 6000>> >>

\* re.match(pattern, old_name) and re.sub(pattern, replacement, old_name) == new_name
RenamePatternGives(n, old_name, new_name) ==
    IF RenamePatterns[n][1] = "suffix"
    THEN /\ SuffixStart(old_name, RenamePatterns[n][2]) # 0
         /\ SuffixRename(old_name, RenamePatterns[n][2], RenamePatterns[n][3]) = new_name
    ELSE /\ StartsWith(old_name, RenamePatterns[n][2])
         /\ Len(old_name) > Len(RenamePatterns[n][2])
         /\ SubSeq(old_name, Len(RenamePatterns[n][2]) + 1, Len(old_name)) = new_name

\* _calculate_name_similarity
calculate_name_similarity(old_name, new_name) ==
    LET given == {n \in 1..Len(RenamePatterns) : RenamePatternGives(n, old_name, new_name)}
        max_len == Max(Len(old_name), Len(new_name))
        levenshtein_similarity ==
            ((max_len - Levenshtein(old_name, new_name)) * Scale) \div max_len
    IN IF old_name = new_name THEN Scale
       ELSE IF given # {} THEN RenamePatterns[CHOOSE n \in given : \A m \in given : n <= m][4]
       ELSE IF max_len = 0 THEN 0
       ELSE IF CommonPrefix(old_name, new_name) >= 3
       THEN Min(Scale, levenshtein_similarity + 2000)
       ELSE levenshtein_similarity

\* (name_similarity * 0.3) + (context_similarity * 0.7)
SemanticScore(old_context, new_context) ==
    (3 * calculate_name_similarity(old_context.name, new_context.name)
        + 7 * calculate_context_similarity(old_context, new_context)) \div 10

\* _find_variable_renames_by_semantic_similarity
find_variable_renames_by_semantic_similarity(old_contexts, new_contexts) ==
    CollectRenames([o \in 1..Len(old_contexts) |->
        BestNewVariable(old_contexts[o], new_contexts,
            [p \in 1..Len(new_contexts) |-> SemanticScore(old_contexts[o], new_contexts[p])],
            6500)])

\* the base names of _find_paired_variable_renames with their old variables:
\* entries <<base_name, [old_var, ...]>> in insertion order
RECURSIVE PairedGroups(_, _, _)
PairedGroups(old_contexts, p, groups) ==
    IF p > Len(old_contexts) THEN groups
    ELSE LET name == old_contexts[p].name
             Add(g, suffix) ==
                 IF SuffixStart(name, suffix) = 0 THEN g
                 ELSE LET base == SubSeq(name, 1, SuffixStart(name, suffix) - 1)
                      IN IF DictHas(g, base)
                         THEN DictPut(g, <<base, Append(DictGet(g, base)[2], name)>>)
                         ELSE Append(g, <<base, <<name>>>>)
         IN PairedGroups(old_contexts, p + 1, Add(Add(groups, <<"T", "b">>), <<"B", "i", "n", "d", "i", "n", "g">>))

\* _find_paired_variable_renames
find_paired_variable_renames(old_contexts, new_contexts) ==
    LET groups == PairedGroups(old_contexts, 1, <<>>)
        potential(base) ==
            SelectSeq(<<base \o <<"T", "y", "p", "e">>, base>>, LAMBDA v : HasContext(new_contexts, v))
        RECURSIVE Link(_, _, _, _)
        Link(renames, g, i, new_vars) ==
            IF i > Len(groups[g][2]) \/ i > Len(new_vars) THEN renames
            ELSE Link(IF contexts_are_compatible(old_contexts, new_contexts,
                                                 groups[g][2][i], new_vars[i])
                      THEN DictPut(renames, <<groups[g][2][i], new_vars[i], 8500>>)
                      ELSE renames,
                      g, i + 1, new_vars)
        RECURSIVE Groups(_, _)
        Groups(renames, g) ==
            IF g > Len(groups) THEN renames
            ELSE Groups(IF Len(groups[g][2]) >= 2
                        THEN Link(renames, g, 1, potential(groups[g][1]))
                        ELSE renames, g + 1)
    IN Groups(<<>>, 1)

\* all_renames after one more strategy: a proposal replaces an entry only
\* with a larger confidence
RECURSIVE MergeRenames(_, _, _)
MergeRenames(all_renames, proposals, p) ==
    IF p > Len(proposals) THEN all_renames
    ELSE MergeRenames(
             IF \/ ~DictHas(all_renames, proposals[p][1])
                \/ proposals[p][3] > DictGet(all_renames, proposals[p][1])[3]
             THEN DictPut(all_renames, proposals[p]) ELSE all_renames,
             proposals, p + 1)

\* _validate_rename
validate_rename(old_contexts, new_contexts, old_var, new_var, new_lines) ==
    /\ \A i \in 0..(Len(new_lines) - 1) : ~HasWord(TextAt(new_lines, i), old_var)
    /\ ContextOf(old_contexts, old_var).operations
           \cap ContextOf(new_contexts, new_var).operations # {}
    /\ ContextOf(old_contexts, old_var).methods
           \cap ContextOf(new_contexts, new_var).methods # {}

\* the pairs <<old_var, new_var>> of a rename table
RenamePairs(renames) == [p \in 1..Len(renames) |-> <<renames[p][1], renames[p][2]>>]

\* a _detect_variable_renames without the call of _validate_rename
UnvalidatedRenames(old_contexts, new_contexts, new_lines) ==
    RenamePairs(SelectSeq(
        MergeRenames(
            MergeRenames(
                MergeRenames(find_variable_renames_by_context(old_contexts, new_contexts),
                             find_variable_renames_by_pattern(old_contexts, new_contexts), 1),
                find_variable_renames_by_semantic_similarity(old_contexts, new_contexts), 1),
            find_paired_variable_renames(old_contexts, new_contexts), 1),
        LAMBDA e : e[3] > 7000))

\* _detect_variable_renames after the contexts of the two sides are built:
\* the four strategies merged, and the validated table
ValidatedRenames(old_contexts, new_contexts, new_lines) ==
    RenamePairs(SelectSeq(
        MergeRenames(
            MergeRenames(
                MergeRenames(find_variable_renames_by_context(old_contexts, new_contexts),
                             find_variable_renames_by_pattern(old_contexts, new_contexts), 1),
                find_variable_renames_by_semantic_similarity(old_contexts, new_contexts), 1),
            find_paired_variable_renames(old_contexts, new_contexts), 1),
        LAMBDA e : /\ e[3] > 7000
                   /\ validate_rename(old_contexts, new_contexts, e[1], e[2], new_lines)))

\* _detect_variable_renames: the validated table, entries <<old_var, new_var>>
detect_variable_renames(old_lines, new_lines, old_methods, new_methods) ==
    ValidatedRenames(build_variable_contexts(old_lines, old_methods),
                     build_variable_contexts(new_lines, new_methods), new_lines)

\* _apply_rename_adjustment: the renames applied one after the other
RECURSIVE apply_rename_adjustment(_, _)
apply_rename_adjustment(variable_renames, line) ==
    IF variable_renames = <<>> THEN line
    ELSE apply_rename_adjustment(Tail(variable_renames),
             ReplaceWord(line, variable_renames[1][1], variable_renames[1][2]))

(***************************************************************************)
(* matcher.py: best_match_for_each_line.  matches is a dict with entries   *)
(* <<old_idx, new_idx, score>>; candidate_sets maps an old index to its    *)
(* list of new indices; similarity_matrix maps <<old_idx, new_idx>> to a   *)
(* score.                                                                  *)
(***************************************************************************)
\* list(range(a, b))
Range(a, b) == [p \in 1..(b - a) |-> a + p - 1]

\* x in list
InList(list, x) == \E p \in 1..Len(list) : list[p] = x

\* candidate_sets.get(i, [])
CandidatesOf(candidate_sets, i) ==
    IF i \in DOMAIN candidate_sets THEN candidate_sets[i] ELSE <<>>

\* the loop with best_match = 0 instead of None at the start: index 0 when
\* no entry passes
FirstBestFromZero(scored, floor) ==
    LET ok == {p \in 1..Len(scored) : scored[p][2] > floor /\ scored[p][2] > 0}
    IN IF ok = {} THEN <<0, 0>>
       ELSE scored[CHOOSE p \in ok :
                      \A q \in ok : \/ scored[p][2] > scored[q][2]
                                    \/ scored[p][2] = scored[q][2] /\ p <= q]

\* the loop "if score > best_score [and score > floor]" over a list of
\* <<new_idx, score>>, with best_score = 0.0 at the start: the first entry
\* with the largest score, if that score is above the floor and above 0;
\* <<None, 0>> if there is none
FirstBest(scored, floor) ==
    LET ok == {p \in 1..Len(scored) : scored[p][2] > floor /\ scored[p][2] > 0}
    IN IF ok = {} THEN <<None, 0>>
       ELSE scored[CHOOSE p \in ok :
                      \A q \in ok : \/ scored[p][2] > scored[q][2]
                                    \/ scored[p][2] = scored[q][2] /\ p <= q]

\* the targets [m[0] for m in matches.values()]
Targets(matches) == {matches[p][2] : p \in 1..Len(matches)}

\* the similarity matrix: combined_similarity with the contexts of window 2
\* for every candidate pair, 0.0 elsewhere
build_similarity_matrix(old_lines, new_lines, candidate_sets) ==
    [i \in 0..(Len(old_lines) - 1) |->
        [j \in 0..(Len(new_lines) - 1) |->
            IF InList(CandidatesOf(candidate_sets, i), j)
            THEN combined_similarity(old_lines[i + 1], new_lines[j + 1],
                                     build_context(old_lines, i, 2),
                                     build_context(new_lines, j, 2))
            ELSE 0]]

\* PASS 1: the first candidate, in list order, above 0.95 and not used
RECURSIVE ExactMatches(_, _, _, _, _)
ExactMatches(n_old, candidate_sets, similarity_matrix, i, state) ==
    IF i >= n_old THEN state
    ELSE LET cands == CandidatesOf(candidate_sets, i)
             hits == {p \in 1..Len(cands) :
                         similarity_matrix[i][cands[p]] > 9500 /\ cands[p] \notin state.used}
             j == cands[CHOOSE p \in hits : \A q \in hits : p <= q]
         IN ExactMatches(n_old, candidate_sets, similarity_matrix, i + 1,
                IF hits = {} THEN state
                ELSE [matches |-> Append(state.matches, <<i, j, similarity_matrix[i][j]>>),
                      used |-> state.used \cup {j}])

\* the loops of passes 2 and 5 over a dict of proposals: an entry is taken
\* if its old index has no match and its new index is not used
RECURSIVE TakeProposals(_, _, _)
TakeProposals(proposals, p, state) ==
    IF p > Len(proposals) THEN state
    ELSE TakeProposals(proposals, p + 1,
             IF ~DictHas(state.matches, proposals[p][1]) /\ proposals[p][2] \notin state.used
             THEN [matches |-> Append(state.matches, proposals[p]),
                   used |-> state.used \cup {proposals[p][2]}]
             ELSE state)

\* the proposals of a field replacement: max(score, 0.4 + confidence * 0.5),
\* kept when above 0.4 and capped at 1.0; <<>> if the line index is not in
\* the new side
FieldProposal(old_lines, new_lines, entry) ==
    LET score == line_similarity(old_lines[entry[1] + 1], new_lines[entry[2] + 1])
        boosted_score == Max(score, 4000 + entry[3] \div 2)
    IN IF entry[2] # None /\ 0 <= entry[2] /\ entry[2] < Len(new_lines) /\ boosted_score > 4000
       THEN <<entry[1], entry[2], Min(boosted_score, Scale)>>
       ELSE <<>>

\* part 1 of _find_enhanced_structural_matches
RECURSIVE FieldProposals(_, _, _, _, _)
FieldProposals(old_lines, new_lines, replacements, p, found) ==
    IF p > Len(replacements) THEN found
    ELSE LET e == FieldProposal(old_lines, new_lines, replacements[p])
         IN FieldProposals(old_lines, new_lines, replacements, p + 1,
                           IF e = <<>> THEN found ELSE DictPut(found, e))

\* part 2 for one old line of a rewritten method: the best candidate around
\* the proportional position in the new method.  int(relative_pos * new_size)
\* is the exact quotient for a method of up to 21 lines.
RewriteProposal(candidate_sets, similarity_matrix, old_idx, old_method, new_method, confidence) ==
    LET old_size == old_method[3] - old_method[2]
        new_size == new_method[3] - new_method[2]
        expected_new_idx ==
            new_method[2] + ((old_idx - old_method[2]) * new_size) \div Max(1, old_size)
        search_start == Max(new_method[2], expected_new_idx - 10)
        search_end == Min(new_method[3], expected_new_idx + 11)
        window == SelectSeq(Range(search_start, search_end),
                            LAMBDA j : InList(CandidatesOf(candidate_sets, old_idx), j))
        scored == [p \in 1..Len(window) |->
                      <<window[p],
                        Min(Scale, similarity_matrix[old_idx][window[p]] + (confidence * 3) \div 10)>>]
    IN FirstBest(scored, 4000)

\* part 2 for the old lines old_idx.. of one rewritten method
RECURSIVE RewriteLines(_, _, _, _, _, _, _)
RewriteLines(candidate_sets, similarity_matrix, old_method, new_method, confidence, old_idx, found) ==
    IF old_idx > old_method[3] THEN found
    ELSE LET best == RewriteProposal(candidate_sets, similarity_matrix, old_idx,
                                     old_method, new_method, confidence)
         IN RewriteLines(candidate_sets, similarity_matrix, old_method, new_method,
                         confidence, old_idx + 1,
                         IF DictHas(found, old_idx) \/ best[1] = None THEN found
                         ELSE DictPut(found, <<old_idx, best[1], best[2]>>))

\* part 2 of _find_enhanced_structural_matches
RECURSIVE RewriteProposals(_, _, _, _, _, _, _)
RewriteProposals(candidate_sets, similarity_matrix, logic_rewrites, old_methods, new_methods, p, found) ==
    IF p > Len(logic_rewrites) THEN found
    ELSE LET method_name == logic_rewrites[p][1]
         IN RewriteProposals(candidate_sets, similarity_matrix, logic_rewrites,
                old_methods, new_methods, p + 1,
                IF DictHas(old_methods, method_name) /\ DictHas(new_methods, method_name)
                THEN RewriteLines(candidate_sets, similarity_matrix,
                                  DictGet(old_methods, method_name),
                                  DictGet(new_methods, method_name),
                                  logic_rewrites[p][4],
                                  DictGet(old_methods, method_name)[2], found)
                ELSE found)

\* part 3 for one old line and one pattern: the first new line that is not a
\* target yet, matches the new pattern and scores above 0.5 once boosted
PatternProposal(old_lines, new_lines, candidate_sets, similarity_matrix, old_idx, n, found) ==
    LET boosted(j) ==
            Min(Scale, (IF InList(CandidatesOf(candidate_sets, old_idx), j)
                        THEN similarity_matrix[old_idx][j] ELSE 3000)
                       + (SemanticPatterns[n][3] * 4) \div 10)
        hits == {j \in 0..(Len(new_lines) - 1) :
                    /\ j \notin Targets(found)
                    /\ Search(TextAt(new_lines, j), SemanticPatterns[n][2]) # 0
                    /\ boosted(j) > 5000}
    IN IF Search(TextAt(old_lines, old_idx), SemanticPatterns[n][1]) = 0 \/ hits = {}
       THEN found
       ELSE LET j == CHOOSE j \in hits : \A h \in hits : j <= h
            IN DictPut(found, <<old_idx, j, boosted(j)>>)

\* part 3: every loaded pattern in turn for every old line without a proposal
RECURSIVE PatternProposals(_, _, _, _, _, _, _, _)
PatternProposals(old_lines, new_lines, candidate_sets, similarity_matrix, semantic_patterns, old_idx, n, found) ==
    IF old_idx >= Len(old_lines) THEN found
    ELSE IF n > semantic_patterns \/ (n = 1 /\ DictHas(found, old_idx))
    THEN PatternProposals(old_lines, new_lines, candidate_sets, similarity_matrix,
                          semantic_patterns, old_idx + 1, 1, found)
    ELSE PatternProposals(old_lines, new_lines, candidate_sets, similarity_matrix,
                          semantic_patterns, old_idx, n + 1,
                          PatternProposal(old_lines, new_lines, candidate_sets,
                                          similarity_matrix, old_idx, n, found))

\* _find_enhanced_structural_matches
find_enhanced_structural_matches(old_lines, new_lines, similarity_matrix, candidate_sets, replacements, logic_rewrites, semantic_patterns, old_methods, new_methods) ==
    LET by_field == FieldProposals(old_lines, new_lines, replacements, 1, <<>>)
        by_rewrite == RewriteProposals(candidate_sets, similarity_matrix, logic_rewrites,
                                       old_methods, new_methods, 1, by_field)
    IN PatternProposals(old_lines, new_lines, candidate_sets, similarity_matrix,
                        semantic_patterns, 0, 1, by_rewrite)

\* _find_remaining_structural_matches
RECURSIVE RemainingProposals(_, _, _, _, _, _)
RemainingProposals(old_lines, new_lines, replacements, state, p, found) ==
    IF p > Len(replacements) THEN found
    ELSE LET e == FieldProposal(old_lines, new_lines, replacements[p])
             skip == \/ DictHas(state.matches, replacements[p][1])
                     \/ replacements[p][2] = None
                     \/ replacements[p][2] \in state.used
         IN RemainingProposals(old_lines, new_lines, replacements, state, p + 1,
                               IF skip \/ e = <<>> THEN found ELSE DictPut(found, e))

find_remaining_structural_matches(old_lines, new_lines, replacements, state) ==
    RemainingProposals(old_lines, new_lines, replacements, state, 1, <<>>)

\* _is_control_flow_line
is_control_flow_line(line) ==
    \E w \in {<<"i", "f">>, <<"e", "l", "s", "e">>, <<"f", "o", "r">>, <<"w", "h", "i", "l", "e">>, <<"r", "e", "t", "u", "r", "n">>, <<"s", "w", "i", "t", "c", "h">>, <<"c", "a", "s", "e">>} :
        HasWord(line, w)

\* self._is_control_flow_line(line) or 'return' in line
ControlLine(line) == is_control_flow_line(line) \/ Contains(line, <<"r", "e", "t", "u", "r", "n">>)

\* score * (1 - abs(i - j) / span)
Penalized(score, i, j, span) == (score * (span - Abs(i - j))) \div span

\* the state after a loop body that found <<new_idx, score>> for old index i
Record(state, i, best) ==
    IF best[1] = None THEN state
    ELSE [matches |-> Append(state.matches, <<i, best[1], best[2]>>),
          used |-> state.used \cup {best[1]}]

\* PASS 3: control-flow lines
RECURSIVE ControlFlowMatches(_, _, _, _, _, _)
ControlFlowMatches(old_lines, new_lines, candidate_sets, similarity_matrix, i, state) ==
    IF i >= Len(old_lines) THEN state
    ELSE LET cands == SelectSeq(CandidatesOf(candidate_sets, i),
                          LAMBDA j : /\ j \notin state.used
                                     /\ ControlLine(TextAt(new_lines, j))
                                     /\ similarity_matrix[i][j] > 6000)
             scored == [p \in 1..Len(cands) |->
                           <<cands[p], Penalized(similarity_matrix[i][cands[p]], i, cands[p], 15)>>]
             next == IF DictHas(state.matches, i) \/ ~ControlLine(TextAt(old_lines, i))
                     THEN state
                     ELSE Record(state, i, FirstBest(scored, 0))
         IN ControlFlowMatches(old_lines, new_lines, candidate_sets, similarity_matrix,
                               i + 1, next)

\* PASS 4: the candidates within ten lines, in index order
RECURSIVE LocalMatches(_, _, _, _, _, _)
LocalMatches(n_old, n_new, candidate_sets, similarity_matrix, i, state) ==
    IF i >= n_old THEN state
    ELSE LET cands == SelectSeq(Range(Max(0, i - 10), Min(n_new, i + 11)),
                          LAMBDA j : /\ j \notin state.used
                                     /\ InList(CandidatesOf(candidate_sets, i), j))
             scored == [p \in 1..Len(cands) |->
                           <<cands[p], Penalized(similarity_matrix[i][cands[p]], i, cands[p], 25)>>]
             next == IF DictHas(state.matches, i) THEN state
                     ELSE Record(state, i, FirstBest(scored, 5000))
         IN LocalMatches(n_old, n_new, candidate_sets, similarity_matrix, i + 1, next)

\* a pass 6 that does not skip the new indices already consumed
RECURSIVE GlobalMatchesAnyTarget(_, _, _, _, _)
GlobalMatchesAnyTarget(n_old, candidate_sets, similarity_matrix, i, state) ==
    IF i >= n_old THEN state
    ELSE LET cands == CandidatesOf(candidate_sets, i)
             scored == [p \in 1..Len(cands) |-> <<cands[p], similarity_matrix[i][cands[p]]>>]
             next == IF DictHas(state.matches, i) THEN state
                     ELSE Record(state, i, FirstBest(scored, 3000))
         IN GlobalMatchesAnyTarget(n_old, candidate_sets, similarity_matrix, i + 1, next)

\* PASS 6: the best free candidate above 0.3
RECURSIVE GlobalMatches(_, _, _, _, _)
GlobalMatches(n_old, candidate_sets, similarity_matrix, i, state) ==
    IF i >= n_old THEN state
    ELSE LET cands == SelectSeq(CandidatesOf(candidate_sets, i), LAMBDA j : j \notin state.used)
             scored == [p \in 1..Len(cands) |-> <<cands[p], similarity_matrix[i][cands[p]]>>]
             next == IF DictHas(state.matches, i) THEN state
                     ELSE Record(state, i, FirstBest(scored, 3000))
         IN GlobalMatches(n_old, candidate_sets, similarity_matrix, i + 1, next)

\* a pass 7 that looks at the free candidates only
RECURSIVE ForcedMatchesAmongFree(_, _, _, _, _)
ForcedMatchesAmongFree(n_old, candidate_sets, similarity_matrix, i, state) ==
    IF i >= n_old THEN state
    ELSE LET cands == SelectSeq(CandidatesOf(candidate_sets, i), LAMBDA j : j \notin state.used)
             scored == [p \in 1..Len(cands) |-> <<cands[p], similarity_matrix[i][cands[p]]>>]
             best == FirstBest(scored, 2000)
             next == IF DictHas(state.matches, i) \/ best[1] = None THEN state
                     ELSE [matches |-> Append(state.matches, <<i, best[1], best[2]>>),
                           used |-> state.used]
         IN ForcedMatchesAmongFree(n_old, candidate_sets, similarity_matrix, i + 1, next)

\* PASS 7: the best candidate, used or not, above 0.2; used_new_indices is
\* left alone
RECURSIVE ForcedMatches(_, _, _, _, _)
ForcedMatches(n_old, candidate_sets, similarity_matrix, i, state) ==
    IF i >= n_old THEN state
    ELSE LET cands == CandidatesOf(candidate_sets, i)
             scored == [p \in 1..Len(cands) |-> <<cands[p], similarity_matrix[i][cands[p]]>>]
             best == FirstBest(scored, 2000)
             next == IF DictHas(state.matches, i) \/ best[1] = None THEN state
                     ELSE [matches |-> Append(state.matches, <<i, best[1], best[2]>>),
                           used |-> state.used]
         IN ForcedMatches(n_old, candidate_sets, similarity_matrix, i + 1, next)

(***************************************************************************)
(* matcher.py: resolve_conflicts, detect_reorders, detect_line_splits      *)
(***************************************************************************)
Braces == {<<"{">>, <<"}">>, <<"}", ";">>}

\* _is_semantically_reasonable_match
is_semantically_reasonable_match(new_idx, new_lines) ==
    LET new_line == Strip(TextAt(new_lines, new_idx))
    IN ~ \/ StartsWith(new_line, <<"p", "u", "b", "l", "i", "c", " ">>) /\ Contains(new_line, <<";">>)
         \/ StartsWith(new_line, <<"i", "m", "p", "o", "r", "t", " ">>)
         \/ new_line \in Braces
         \/ Len(new_line) < 10
         \/ /\ Contains(new_line, <<"}">>)
            /\ ~Contains(new_line, <<"{">>)
            /\ ~Contains(new_line, <<"c", "l", "a", "s", "s">>)

\* a _find_valid_alternative that does not test the index against the file:
\* the first offset whose index is no target yet
find_valid_alternative_unbounded(original_new_idx, new_lines, resolved_matches) ==
    LET free == {offset \in (-15..15) \ {0} :
                    original_new_idx + offset \notin Targets(resolved_matches)}
    IN IF free = {} THEN None
       ELSE original_new_idx + (CHOOSE o \in free : \A f \in free : o <= f)

\* _find_valid_alternative: the first offset in -15..15 whose index is in the
\* file, is no target of resolved_matches so far and is a reasonable line
find_valid_alternative(original_new_idx, new_lines, resolved_matches) ==
    LET free == {offset \in (-15..15) \ {0} :
                    LET test_idx == original_new_idx + offset
                    IN /\ 0 <= test_idx /\ test_idx < Len(new_lines)
                       /\ test_idx \notin Targets(resolved_matches)
                       /\ is_semantically_reasonable_match(test_idx, new_lines)}
    IN IF free = {} THEN None
       ELSE original_new_idx + (CHOOSE o \in free : \A f \in free : o <= f)

\* new_to_old: entries <<new_idx, [<<old_idx, score>>, ...]>> in the order
\* the new indices first occur in matches
RECURSIVE GroupByTarget(_, _, _)
GroupByTarget(matches, p, groups) ==
    IF p > Len(matches) THEN groups
    ELSE LET item == <<matches[p][1], matches[p][3]>>
             new_idx == matches[p][2]
         IN GroupByTarget(matches, p + 1,
                IF DictHas(groups, new_idx)
                THEN DictPut(groups, <<new_idx, Append(DictGet(groups, new_idx)[2], item)>>)
                ELSE Append(groups, <<new_idx, <<item>>>>))

\* a sort that puts an item before the items of the same score
RECURSIVE InsertByScoreUnstable(_, _)
InsertByScoreUnstable(sorted, x) ==
    IF sorted = <<>> THEN <<x>>
    ELSE IF Head(sorted)[2] > x[2]
         THEN <<Head(sorted)>> \o InsertByScoreUnstable(Tail(sorted), x)
         ELSE <<x>> \o sorted

\* sorted(old_items, key=lambda x: x[1], reverse=True): stable, so an item
\* goes after every item whose score is not smaller
RECURSIVE InsertByScore(_, _)
InsertByScore(sorted, x) ==
    IF sorted = <<>> THEN <<x>>
    ELSE IF Head(sorted)[2] >= x[2]
         THEN <<Head(sorted)>> \o InsertByScore(Tail(sorted), x)
         ELSE <<x>> \o sorted

RECURSIVE SortByScore(_)
SortByScore(s) ==
    IF s = <<>> THEN <<>>
    ELSE InsertByScore(SortByScore(SubSeq(s, 1, Len(s) - 1)), s[Len(s)])

\* a loop over the losers that does not ask for a distance to the winner
RECURSIVE SalvageNeighbours(_, _, _, _, _, _, _)
SalvageNeighbours(sorted_items, i, new_idx, best_old_idx, new_lines, replacements, resolved) ==
    IF i > Len(sorted_items) THEN resolved
    ELSE LET old_idx == sorted_items[i][1]
             score == sorted_items[i][2]
             nearby_new == find_valid_alternative(new_idx, new_lines, resolved)
             saved == /\ DictHas(replacements, old_idx) \/ score > 8000
                      /\ is_semantically_reasonable_match(new_idx, new_lines)
                      /\ nearby_new # None
                      /\ nearby_new # new_idx
         IN SalvageNeighbours(sorted_items, i + 1, new_idx, best_old_idx, new_lines,
                              replacements,
                              IF saved THEN DictPut(resolved, <<old_idx, nearby_new, score>>)
                              ELSE resolved)

\* the loop over the losers of one conflict
RECURSIVE Salvage(_, _, _, _, _, _, _)
Salvage(sorted_items, i, new_idx, best_old_idx, new_lines, replacements, resolved) ==
    IF i > Len(sorted_items) THEN resolved
    ELSE LET old_idx == sorted_items[i][1]
             score == sorted_items[i][2]
             is_structural == DictHas(replacements, old_idx)
             is_high_confidence == score > 8000
             has_sufficient_distance == Abs(old_idx - best_old_idx) > 5
             nearby_new == find_valid_alternative(new_idx, new_lines, resolved)
             saved == /\ is_structural \/ is_high_confidence
                      /\ has_sufficient_distance
                      /\ is_semantically_reasonable_match(new_idx, new_lines)
                      /\ nearby_new # None
                      /\ nearby_new # new_idx
         IN Salvage(sorted_items, i + 1, new_idx, best_old_idx, new_lines, replacements,
                    IF saved THEN DictPut(resolved, <<old_idx, nearby_new, score>>)
                    ELSE resolved)

\* the loop over new_to_old
RECURSIVE ResolveGroups(_, _, _, _, _)
ResolveGroups(groups, g, new_lines, replacements, resolved) ==
    IF g > Len(groups) THEN resolved
    ELSE LET new_idx == groups[g][1]
             sorted_items == SortByScore(groups[g][2])
             best == sorted_items[1]
             won == DictPut(resolved, <<best[1], new_idx, best[2]>>)
         IN ResolveGroups(groups, g + 1, new_lines, replacements,
                Salvage(sorted_items, 2, new_idx, best[1], new_lines, replacements, won))

\* resolve_conflicts
resolve_conflicts(matches, new_lines, replacements) ==
    ResolveGroups(GroupByTarget(matches, 1, <<>>), 1, new_lines, replacements, <<>>)

\* self._get_cached_similarity(old_line, new_line, "", "") and the same
\* after _apply_rename_adjustment of both lines: the larger of the two
ReorderScore(old_lines, new_lines, variable_renames, old_idx, new_idx) ==
    LET score == line_similarity(old_lines[old_idx + 1], new_lines[new_idx + 1])
        adjusted_old == apply_rename_adjustment(variable_renames, TextAt(old_lines, old_idx))
        adjusted_new == apply_rename_adjustment(variable_renames, TextAt(new_lines, new_idx))
    IN IF variable_renames = <<>> THEN score
       ELSE Max(score, text_similarity(adjusted_old, adjusted_new))

\* a search range that is the whole new side
ReorderRangeWholeFile(old_idx, old_method, new_lines, new_methods) ==
    Range(0, Len(new_lines))

\* the search range of detect_reorders for one old line
ReorderRange(old_idx, old_method, new_lines, new_methods) ==
    IF DictHas(new_methods, old_method)
    THEN Range(Max(0, DictGet(new_methods, old_method)[2] - 25),
               Min(Len(new_lines), DictGet(new_methods, old_method)[3] + 26))
    ELSE Range(Max(0, old_idx - 60), Min(Len(new_lines), old_idx + 61))

\* a loop of detect_reorders that does not skip the new lines in matched_new
RECURSIVE ReorderFromAnyTarget(_, _, _, _, _, _, _, _, _, _)
ReorderFromAnyTarget(old_lines, new_lines, matches, threshold, old_methods, new_methods, field_removed, variable_renames, old_idx, state) ==
    IF old_idx >= Len(old_lines) THEN state
    ELSE LET old_method == get_method_context(old_idx, old_methods)
             cands == SelectSeq(ReorderRange(old_idx, old_method, new_lines, new_methods),
                         LAMBDA j :
                             LET new_method == get_method_context(j, new_methods)
                             IN ~ /\ old_method # Global
                                  /\ new_method # Global
                                  /\ old_method # new_method)
             scored == [p \in 1..Len(cands) |->
                           <<cands[p], ReorderScore(old_lines, new_lines, variable_renames,
                                                    old_idx, cands[p])>>]
             best == FirstBest(scored, 0)
             next == IF \/ DictHas(matches, old_idx)
                        \/ old_idx = field_removed
                        \/ best[1] = None
                        \/ best[2] < threshold
                     THEN state
                     ELSE Record(state, old_idx, best)
         IN ReorderFromAnyTarget(old_lines, new_lines, matches, threshold, old_methods,
                                 new_methods, field_removed, variable_renames, old_idx + 1,
                                 next)

\* the loop of detect_reorders over the old lines; state is the extra
\* matches and matched_new
RECURSIVE ReorderFrom(_, _, _, _, _, _, _, _, _, _)
ReorderFrom(old_lines, new_lines, matches, threshold, old_methods, new_methods, field_removed, variable_renames, old_idx, state) ==
    IF old_idx >= Len(old_lines) THEN state
    ELSE LET old_method == get_method_context(old_idx, old_methods)
             cands == SelectSeq(ReorderRange(old_idx, old_method, new_lines, new_methods),
                         LAMBDA j :
                             /\ j \notin state.used
                             /\ LET new_method == get_method_context(j, new_methods)
                                IN ~ /\ old_method # Global
                                     /\ new_method # Global
                                     /\ old_method # new_method)
             scored == [p \in 1..Len(cands) |->
                           <<cands[p], ReorderScore(old_lines, new_lines, variable_renames,
                                                    old_idx, cands[p])>>]
             best == FirstBest(scored, 0)
             next == IF \/ DictHas(matches, old_idx)
                        \/ old_idx = field_removed
                        \/ best[1] = None
                        \/ best[2] < threshold
                     THEN state
                     ELSE Record(state, old_idx, best)
         IN ReorderFrom(old_lines, new_lines, matches, threshold, old_methods, new_methods,
                        field_removed, variable_renames, old_idx + 1, next)

\* detect_reorders without the skip of the old indices that have a match,
\* {**matches, **extra_matches} then replacing the matches they had
detect_reorders_rematching(old_lines, new_lines, matches, threshold, old_methods, new_methods, field_removed, variable_renames) ==
    LET extra_matches == ReorderFrom(old_lines, new_lines, <<>>, threshold, old_methods,
                                     new_methods, field_removed, variable_renames, 0,
                                     [matches |-> <<>>, used |-> Targets(matches)]).matches
    IN [p \in 1..Len(matches) |->
           IF DictHas(extra_matches, matches[p][1])
           THEN DictGet(extra_matches, matches[p][1])
           ELSE matches[p]]
       \o SelectSeq(extra_matches, LAMBDA e : ~DictHas(matches, e[1]))

\* detect_reorders: {**matches, **extra_matches}
detect_reorders(old_lines, new_lines, matches, threshold, old_methods, new_methods, field_removed, variable_renames) ==
    matches \o ReorderFrom(old_lines, new_lines, matches, threshold, old_methods,
                           new_methods, field_removed, variable_renames, 0,
                           [matches |-> <<>>, used |-> Targets(matches)]).matches

\* _is_likely_split_candidate; old_line is already stripped
is_likely_split_candidate(old_line, new_lines, start_idx) ==
    LET current_text == Strip(TextAt(new_lines, start_idx))
    IN /\ ~(Len(old_line) < 20 \/ Len(current_text) < 10)
       /\ ~(old_line \in Braces \/ current_text \in Braces)
       /\ ~ \/ StartsWith(old_line, <<"i", "m", "p", "o", "r", "t", " ">>)
            \/ StartsWith(old_line, <<"p", "u", "b", "l", "i", "c", " ">>)
            \/ StartsWith(old_line, <<"p", "r", "i", "v", "a", "t", "e", " ">>)
       /\ ~(text_similarity(old_line, current_text) > 9000)
       /\ \/ 10 * Len(current_text) < 6 * Len(old_line)
          \/ EndsWith(old_line, <<";">>) /\ ~EndsWith(current_text, <<";">>)
          \/ Count(old_line, ";") > 1 /\ ~Contains(current_text, <<";">>)
          \/ Contains(old_line, <<"=">>) /\ Contains(old_line, <<"(">>) /\ Len(old_line) > 40

\* the loop of _extend_split_group_safely from next_idx on
RECURSIVE ExtendFrom(_, _, _, _, _, _, _, _)
ExtendFrom(old_line, new_lines, next_idx, stop, increase, group, combined_text, best_score) ==
    IF next_idx >= stop THEN group
    ELSE LET next_line == Strip(TextAt(new_lines, next_idx))
             test_combined == combined_text \o <<" ">> \o next_line
             test_score == text_similarity(old_line, test_combined)
         IN IF next_line = <<>> \/ next_line \in Braces
            THEN ExtendFrom(old_line, new_lines, next_idx + 1, stop, increase, group,
                            combined_text, best_score)
            ELSE IF test_score > best_score + increase
            THEN ExtendFrom(old_line, new_lines, next_idx + 1, stop, increase,
                            Append(group, next_idx), test_combined, test_score)
            ELSE group

\* an _extend_split_group_safely that goes on to the end of the new side
extend_split_group_to_end(old_line, new_lines, start_idx, threshold_increase) ==
    ExtendFrom(old_line, new_lines, start_idx + 1, Len(new_lines),
               Max(threshold_increase, 500), <<start_idx>>,
               Strip(TextAt(new_lines, start_idx)),
               text_similarity(old_line, Strip(TextAt(new_lines, start_idx))))

\* _extend_split_group_safely
extend_split_group_safely(old_line, new_lines, start_idx, threshold_increase) ==
    LET combined_text == Strip(TextAt(new_lines, start_idx))
        max_split_size == Min(5, Len(old_line) \div 20)
    IN ExtendFrom(old_line, new_lines, start_idx + 1,
                  Min(start_idx + max_split_size + 1, Len(new_lines)),
                  Max(threshold_increase, 500), <<start_idx>>, combined_text,
                  text_similarity(old_line, combined_text))

\* set(re.findall(r"\b\w+\b", s.lower()))
WordSet(s) == LET w == Words(ToLower(s)) IN {w[p] : p \in 1..Len(w)}

\* a _validate_split without the two gates
validate_split_lenient(old_line, split_group, new_lines) == Len(split_group) >= 2

\* _validate_split
validate_split(old_line, split_group, new_lines) ==
    LET stripped == [p \in 1..Len(split_group) |-> Strip(TextAt(new_lines, split_group[p]))]
        combined_text == JoinSpace(stripped)
        individual == {text_similarity(old_line, stripped[p]) : p \in 1..Len(split_group)}
        best_individual_score == CHOOSE s \in individual \cup {0} :
                                     \A t \in individual \cup {0} : s >= t
        combined_score == text_similarity(old_line, combined_text)
        old_tokens == WordSet(old_line)
        token_overlap == Cardinality(old_tokens \cap WordSet(combined_text))
    IN /\ Len(split_group) >= 2
       /\ ~(combined_score < best_individual_score + 1000)
       /\ ~(10 * token_overlap < 6 * Cardinality(old_tokens))

\* the group detect_line_splits gives one match
SplitGroup(old_lines, new_lines, old_idx, new_idx, threshold_increase) ==
    LET old_line == Strip(TextAt(old_lines, old_idx))
        extended_group == extend_split_group_safely(old_line, new_lines, new_idx,
                                                    threshold_increase)
    IN IF /\ is_likely_split_candidate(old_line, new_lines, new_idx)
          /\ Len(extended_group) > 1
          /\ validate_split(old_line, extended_group, new_lines)
       THEN extended_group
       ELSE <<new_idx>>

\* a detect_line_splits that records a group only for a validated split
detect_line_splits_only_splits(old_lines, new_lines, matches, threshold_increase) ==
    SelectSeq([p \in 1..Len(matches) |->
                  <<matches[p][1],
                    SplitGroup(old_lines, new_lines, matches[p][1], matches[p][2],
                               threshold_increase)>>],
              LAMBDA e : Len(e[2]) > 1)

\* detect_line_splits: entries <<old_idx, [new_idx, ...]>>
detect_line_splits(old_lines, new_lines, matches, threshold_increase) ==
    [p \in 1..Len(matches) |->
        <<matches[p][1],
          SplitGroup(old_lines, new_lines, matches[p][1], matches[p][2], threshold_increase)>>]

(***************************************************************************)
(* main.py run_case: generate_candidate_sets, best_match_for_each_line,    *)
(* resolve_conflicts, detect_reorders, and detect_line_splits on the       *)
(* result.  Every stage is an operator on the instance or on the locals;   *)
(* an action applies one stage.                                            *)
(***************************************************************************)
\* DiffMatcher.__init__
DiffMatcher ==
    [structural_changes |-> NoStructuralChanges,
     variable_renames |-> <<>>,
     method_boundaries |-> [old |-> <<>>, new |-> <<>>],
     field_usage_replacements |-> <<>>,
     logic_rewrites |-> <<>>,
     semantic_patterns |-> 0]

\* the locals before the first stage
Locals(old_lines, new_lines, k) ==
    [old_lines |-> old_lines,
     new_lines |-> new_lines,
     k |-> k,
     candidates |-> <<>>,
     similarity_matrix |-> <<>>,
     matches |-> <<>>,
     used_new_indices |-> {},
     resolved |-> <<>>,
     final_mappings |-> <<>>]

\* the lines of the two sides
LinesOf(old_lines, new_lines) ==
    {old_lines[p] : p \in 1..Len(old_lines)} \cup {new_lines[p] : p \in 1..Len(new_lines)}

\* compute_simhash is some function of the text: the fingerprints it may
\* give the lines of the two sides
Fingerprints(old_lines, new_lines) == [LinesOf(old_lines, new_lines) -> Hashes]

\* generate_candidate_sets(old_lines, new_lines, k) under one fingerprint
\* function
CandidateSets(old_lines, new_lines, k, simhash) ==
    generate_candidate_sets([p \in 1..Len(old_lines) |-> simhash[old_lines[p]]],
                            [p \in 1..Len(new_lines) |-> simhash[new_lines[p]]], k)

\* the fields the loop of _detect_field_changes may visit last: a set of str
\* is iterated in the order of the hashes of this process
LastVisited(old_lines, new_lines) ==
    IF removed_fields(old_lines, new_lines) = {} THEN {<<>>}
    ELSE removed_fields(old_lines, new_lines)

\* detect_structural_changes, steps 3 to 6, on an instance that holds the
\* method boundaries of step 1 and the field changes of step 2
StepsAfterFieldChanges(self, old_lines, new_lines) ==
    [self EXCEPT
        !.field_usage_replacements =
            detect_field_usage_replacements(self.field_usage_replacements,
                self.structural_changes, old_lines, new_lines, self.semantic_patterns,
                self.method_boundaries.old, self.method_boundaries.new),
        !.variable_renames =
            detect_variable_renames(old_lines, new_lines,
                self.method_boundaries.old, self.method_boundaries.new),
        !.logic_rewrites =
            detect_logic_rewrites(self.logic_rewrites, old_lines, new_lines,
                self.method_boundaries.old, self.method_boundaries.new),
        !.semantic_patterns = Len(SemanticPatterns)]

\* detect_structural_changes: steps 1 to 6 on the instance
detect_structural_changes(self, old_lines, new_lines, last) ==
    StepsAfterFieldChanges(
        [self EXCEPT
            !.method_boundaries = [old |-> find_method_boundaries(old_lines),
                                   new |-> find_method_boundaries(new_lines)],
            !.structural_changes =
                detect_field_changes(self.structural_changes, old_lines, new_lines, last)],
        old_lines, new_lines)

\* matches and used_new_indices as one record, and back
MatchState(f) == [matches |-> f.matches, used |-> f.used_new_indices]

WithMatches(f, state) ==
    [f EXCEPT !.matches = state.matches, !.used_new_indices = state.used]

\* the similarity matrix of best_match_for_each_line
WithMatrix(f) ==
    [f EXCEPT !.similarity_matrix =
        build_similarity_matrix(f.old_lines, f.new_lines, f.candidates)]

\* PASS 1 to PASS 7 of best_match_for_each_line
AfterPass1(f) ==
    WithMatches(f, ExactMatches(Len(f.old_lines), f.candidates, f.similarity_matrix,
                                0, MatchState(f)))

AfterPass2(self, f) ==
    WithMatches(f, TakeProposals(
        find_enhanced_structural_matches(f.old_lines, f.new_lines, f.similarity_matrix,
            f.candidates, self.field_usage_replacements, self.logic_rewrites,
            self.semantic_patterns, self.method_boundaries.old, self.method_boundaries.new),
        1, MatchState(f)))

AfterPass3(f) ==
    WithMatches(f, ControlFlowMatches(f.old_lines, f.new_lines, f.candidates,
                                      f.similarity_matrix, 0, MatchState(f)))

AfterPass4(f) ==
    WithMatches(f, LocalMatches(Len(f.old_lines), Len(f.new_lines), f.candidates,
                                f.similarity_matrix, 0, MatchState(f)))

AfterPass5(self, f) ==
    WithMatches(f, TakeProposals(
        find_remaining_structural_matches(f.old_lines, f.new_lines,
            self.field_usage_replacements, MatchState(f)),
        1, MatchState(f)))

AfterPass6(f) ==
    WithMatches(f, GlobalMatches(Len(f.old_lines), f.candidates, f.similarity_matrix,
                                 0, MatchState(f)))

AfterPass7(f) ==
    WithMatches(f, ForcedMatches(Len(f.old_lines), f.candidates, f.similarity_matrix,
                                 0, MatchState(f)))

\* resolved = matcher.resolve_conflicts(matches, new_lines)
AfterResolve(self, f) ==
    [f EXCEPT !.resolved =
        resolve_conflicts(f.matches, f.new_lines, self.field_usage_replacements)]

\* the threshold run_case gives detect_reorders: 0.4
ReorderThreshold == 4000

\* the default threshold_increase of detect_line_splits: 0.01
ThresholdIncrease == 100

\* resolved = matcher.detect_reorders(old_lines, new_lines, resolved, threshold=0.4)
AfterReorders(self, f) ==
    [f EXCEPT !.resolved =
        detect_reorders(f.old_lines, f.new_lines, f.resolved, ReorderThreshold,
                        self.method_boundaries.old, self.method_boundaries.new,
                        self.structural_changes[1], self.variable_renames)]

\* detect_line_splits(old_lines, new_lines, resolved)
AfterSplits(f) ==
    [f EXCEPT !.final_mappings =
        detect_line_splits(f.old_lines, f.new_lines, f.resolved, ThresholdIncrease)]

\* best_match_for_each_line on an instance
best_match_for_each_line(self, f) ==
    AfterPass7(AfterPass6(AfterPass5(self,
        AfterPass4(AfterPass3(AfterPass2(self, AfterPass1(WithMatrix(f))))))))

\* the mapping of a whole run with a fresh instance, from the candidate sets
\* on, when the loop of _detect_field_changes visits last last
RunCase(old_lines, new_lines, k, candidates, last) ==
    LET self == detect_structural_changes(DiffMatcher, old_lines, new_lines, last)
        start == [Locals(old_lines, new_lines, k) EXCEPT !.candidates = candidates]
    IN AfterSplits(AfterReorders(self,
           AfterResolve(self, best_match_for_each_line(self, start)))).final_mappings

(***************************************************************************)
(* The sides the pipeline is run on.                                       *)
(***************************************************************************)
MaxLen == 2

MaxK == 2

\* "" and "total = compute(alpha);"
CoreLines == {1, 3}

Files == UNION {[1..n -> CoreLines] : n \in 0..MaxLen}

\* seven equal lines on both sides
Repeated == [p \in 1..7 |-> 3]

\* pairs with fields, methods, renames and a line split in two; a control
\* line three lines down; a sum split in two; two statements merged; two new
\* lines equal to the old one but for a one-letter name; two groups that
\* _extend_split_group_safely accepts, one without the words of the old line
\* and one that scores little more than its first line
Scenarios == {
    <<Repeated, Repeated>>,
    <<<<4, 5, 6, 7>>, <<8>>>>,
    <<<<9, 10, 10, 11, 11, 11>>, <<9, 12, 11>>>>,
    <<<<6, 8>>, <<8, 8>>>>,
    <<<<9, 13, 11>>, <<9, 14, 8, 11>>>>,
    <<<<3>>, <<15, 16>>>>,
    <<<<2, 3>>, <<3, 2, 2>>>>,
    <<<<10>>, <<3, 3, 3, 10>>>>,
    <<<<17>>, <<18, 19>>>>,
    <<<<2, 20>>, <<21>>>>,
    <<<<6>>, <<22, 6>>>>,
    <<<<13>>, <<15, 16>>>>,
    <<<<3>>, <<15, 12>>>> }

Inputs == (Files \X Files) \cup Scenarios

Init ==
    /\ pc = "candidates"
    /\ matcher = DiffMatcher
    /\ \E input \in Inputs : \E k \in 1..MaxK :
           frame = Locals(input[1], input[2], k)
    /\ NormOff
    /\ QueryOff

\* candidates = generate_candidate_sets(old_lines, new_lines, k)
GenerateCandidateSets ==
    /\ pc = "candidates"
    /\ \E simhash \in Fingerprints(frame.old_lines, frame.new_lines) :
           frame' = [frame EXCEPT !.candidates =
                        CandidateSets(frame.old_lines, frame.new_lines, frame.k, simhash)]
    /\ pc' = "structure"
    /\ UNCHANGED <<matcher, nvars, qvars>>

\* best_match_for_each_line, first part: self.detect_structural_changes
DetectStructuralChanges ==
    /\ pc = "structure"
    /\ \E last \in LastVisited(frame.old_lines, frame.new_lines) :
           matcher' = detect_structural_changes(matcher, frame.old_lines,
                                                frame.new_lines, last)
    /\ pc' = "matrix"
    /\ UNCHANGED <<frame, nvars, qvars>>

\* one step of the locals
Step(from, to, next) ==
    /\ pc = from
    /\ frame' = next
    /\ pc' = to
    /\ UNCHANGED <<matcher, nvars, qvars>>

BuildSimilarityMatrix == Step("matrix", "pass1", WithMatrix(frame))

Pass1 == Step("pass1", "pass2", AfterPass1(frame))

\* old_lines[old_idx] in part 1 of _find_enhanced_structural_matches raises
\* IndexError when a recorded replacement has its line in the new side and
\* its old index beyond the old side
RaisesIndexError(self, f) ==
    \E p \in 1..Len(self.field_usage_replacements) :
        /\ self.field_usage_replacements[p][2] # None
        /\ 0 <= self.field_usage_replacements[p][2]
        /\ self.field_usage_replacements[p][2] < Len(f.new_lines)
        /\ self.field_usage_replacements[p][1] >= Len(f.old_lines)

Pass2 ==
    /\ ~RaisesIndexError(matcher, frame)
    /\ Step("pass2", "pass3", AfterPass2(matcher, frame))

Pass3 == Step("pass3", "pass4", AfterPass3(frame))

Pass4 == Step("pass4", "pass5", AfterPass4(frame))

Pass5 == Step("pass5", "pass6", AfterPass5(matcher, frame))

Pass6 == Step("pass6", "pass7", AfterPass6(frame))

Pass7 == Step("pass7", "resolve", AfterPass7(frame))

ResolveConflicts == Step("resolve", "reorder", AfterResolve(matcher, frame))

DetectReorders == Step("reorder", "splits", AfterReorders(matcher, frame))

DetectLineSplits == Step("splits", "done", AfterSplits(frame))

Next ==
    \/ GenerateCandidateSets
    \/ DetectStructuralChanges
    \/ BuildSimilarityMatrix
    \/ Pass1
    \/ Pass2
    \/ Pass3
    \/ Pass4
    \/ Pass5
    \/ Pass6
    \/ Pass7
    \/ ResolveConflicts
    \/ DetectReorders
    \/ DetectLineSplits

Spec == Init /\ [][Next]_vars

(***************************************************************************)
(* similarity.py on its own: content_similarity on every pair of short     *)
(* texts, and context_similarity on contexts that are empty, blank, without *)
(* a word, or code.                                                        *)
(***************************************************************************)
MaxSimLen == 2

\* a letter, a digit, a blank and an operator
SimChars == {"a", "1", " ", "+"}

SimTexts == UNION {[1..n -> SimChars] : n \in 0..MaxSimLen}

\* "", " " (two empty lines joined), "}" and "total = compute(alpha);"
SimContexts == {<<>>, <<1, 1>>, <<11>>, <<3>>}

SimInit ==
    /\ pc = "similarity"
    /\ matcher = DiffMatcher
    /\ \E a, b \in SimTexts : \E a_context, b_context \in SimContexts :
           frame = [a |-> a, b |-> b, a_context |-> a_context, b_context |-> b_context,
                    content |-> None, swapped |-> None, same |-> None, context |-> None]
    /\ NormOff
    /\ QueryOff

\* content_similarity(a, b), content_similarity(b, a), content_similarity(a, a)
\* and context_similarity(a_context, b_context)
ScoreTexts ==
    /\ pc = "similarity"
    /\ frame' = [frame EXCEPT
                    !.content = content_similarity(frame.a, frame.b),
                    !.swapped = content_similarity(frame.b, frame.a),
                    !.same = content_similarity(frame.a, frame.a),
                    !.context = context_similarity(frame.a_context, frame.b_context)]
    /\ pc' = "scored"
    /\ UNCHANGED <<matcher, nvars, qvars>>

SimNext == ScoreTexts

SpecSim == SimInit /\ [][SimNext]_vars

(***************************************************************************)
(* detect_reorders on its own: an instance that has seen the two sides,    *)
(* and any small mapping as the one resolve_conflicts returned.  The new   *)
(* sides put the line the old side lost at, and just beyond, the end of    *)
(* the search range, in another method, and outside every method.          *)
(***************************************************************************)
MaxGiven == 2

\* n empty lines
Blank(n) == [p \in 1..n |-> 1]

ReorderSides == {
    <<<<9, 3, 11>>, <<9, 11>> \o Blank(24) \o <<3>>>>,
    <<<<9, 3, 11>>, <<9, 11>> \o Blank(25) \o <<3>>>>,
    <<<<3>>, Blank(60) \o <<3>>>>,
    <<<<3>>, Blank(61) \o <<3>>>>,
    <<<<9, 3, 11>>, <<9, 11, 10, 3, 11>>>>,
    <<<<9, 3, 11>>, <<3, 9, 11>>>>,
    <<<<9, 3, 11>>, <<1, 3>>>>,
    <<<<3, 2>>, <<2, 3>>>> }

\* the score of the matches detect_reorders is given: no score it gives
GivenScores == {5000}

\* the mappings of up to MaxGiven matches among the first three lines of
\* each side
GivenDicts(old_lines, new_lines) ==
    LET entries == (0..(Min(Len(old_lines), 3) - 1)) \X (0..(Min(Len(new_lines), 3) - 1))
                       \X GivenScores
    IN {m \in UNION {[1..len -> entries] : len \in 0..MaxGiven} :
           \A p, q \in 1..Len(m) : m[p][1] = m[q][1] => p = q}

ReorderInit ==
    /\ pc = "reorder"
    /\ \E side \in ReorderSides :
           /\ \E last \in LastVisited(side[1], side[2]) :
                  matcher = detect_structural_changes(DiffMatcher, side[1], side[2], last)
           /\ \E given \in GivenDicts(side[1], side[2]) :
                  frame = [Locals(side[1], side[2], 1) EXCEPT !.resolved = given]
    /\ NormOff
    /\ QueryOff

ReorderNext == DetectReorders

SpecReorder == ReorderInit /\ [][ReorderNext]_vars

(***************************************************************************)
(* _extend_split_group_safely on its own: an old line of 23 or of 42       *)
(* characters, new sides of the two halves of each, empty lines and        *)
(* closing braces, and any start index.                                    *)
(***************************************************************************)
MaxExtendLen == 3

ExtendOlds == {3, 25}

ExtendLines == {1, 11, 15, 16, 26, 27}

ExtendInit ==
    /\ pc = "extend"
    /\ matcher = DiffMatcher
    /\ \E old_line \in ExtendOlds : \E n \in 1..MaxExtendLen :
           \E new_lines \in [1..n -> ExtendLines] : \E start_idx \in 0..(n - 1) :
               frame = [old_line |-> Strip(Catalog[old_line]), new_lines |-> new_lines,
                        start_idx |-> start_idx, group |-> <<>>]
    /\ NormOff
    /\ QueryOff

\* group = self._extend_split_group_safely(old_line, new_lines, start_idx, 0.01)
ExtendSplitGroup ==
    /\ pc = "extend"
    /\ frame' = [frame EXCEPT !.group =
                    extend_split_group_safely(frame.old_line, frame.new_lines,
                                              frame.start_idx, ThresholdIncrease)]
    /\ pc' = "extended"
    /\ UNCHANGED <<matcher, nvars, qvars>>

ExtendNext == ExtendSplitGroup

SpecExtend == ExtendInit /\ [][ExtendNext]_vars

(***************************************************************************)
(* _find_method_boundaries on its own: any side of a class header, a       *)
(* method header, a one-line if, a closing brace and a statement.          *)
(***************************************************************************)
MaxBoundLen == 5

BoundLines == {2, 9, 11, 23, 24}

BoundInit ==
    /\ pc = "boundaries"
    /\ matcher = DiffMatcher
    /\ \E n \in 0..MaxBoundLen : \E lines \in [1..n -> BoundLines] :
           frame = [lines |-> lines, boundaries |-> <<>>]
    /\ NormOff
    /\ QueryOff

\* boundaries = self._find_method_boundaries(lines)
FindMethodBoundaries ==
    /\ pc = "boundaries"
    /\ frame' = [frame EXCEPT !.boundaries = find_method_boundaries(frame.lines)]
    /\ pc' = "bounded"
    /\ UNCHANGED <<matcher, nvars, qvars>>

BoundNext == FindMethodBoundaries

SpecBound == BoundInit /\ [][BoundNext]_vars

(***************************************************************************)
(* detect_structural_changes on sides of assignments and returns whose     *)
(* variables differ in a suffix.                                           *)
(***************************************************************************)
MaxRenameLen == 2

\* "sizeTb = load(sizeTb);" and "return countTemp;"
RenameOlds == {13, 29}

\* the same, "sizeType = load(sizeType);", "size = load(size);" and
\* "return count;"
RenameNews == {13, 14, 28, 30}

RenameInit ==
    /\ pc = "structure"
    /\ matcher = DiffMatcher
    /\ \E n, m \in 0..MaxRenameLen :
           \E old_lines \in [1..n -> RenameOlds] : \E new_lines \in [1..m -> RenameNews] :
               frame = Locals(old_lines, new_lines, 1)
    /\ NormOff
    /\ QueryOff

RenameNext == DetectStructuralChanges

SpecRename == RenameInit /\ [][RenameNext]_vars

(***************************************************************************)
(* One DiffMatcher instance given one pair after the other: each pair runs *)
(* through the stages of run_case, and the fields of the instance are what *)
(* the stages of the pairs before left in them.                            *)
(***************************************************************************)
MaxRuns == 2

\* a removed field with a use three lines down and one with a use one line
\* down; a method rewritten; sides without fields or methods, of one, two
\* and three lines
ReusePairs == {
    <<<<4, 5, 6, 7>>, <<8>>>>,
    <<<<4, 6>>, <<8>>>>,
    <<<<9, 10, 10, 11, 11, 11>>, <<9, 12, 11>>>>,
    <<<<3>>, <<3>>>>,
    <<<<2, 2>>, <<3, 3>>>>,
    <<<<2, 2, 2>>, <<8, 8, 8>>>> }

\* the locals of one pair and the number of pairs still to come
ReuseLocals(pair, left) == Locals(pair[1], pair[2], MaxK) @@ [runs_left |-> left]

ReuseInit ==
    /\ pc = "candidates"
    /\ matcher = DiffMatcher
    /\ \E pair \in ReusePairs : frame = ReuseLocals(pair, MaxRuns - 1)
    /\ NormOff
    /\ QueryOff

\* the instance is handed the next pair
NextPair ==
    /\ pc = "done"
    /\ frame.runs_left > 0
    /\ \E pair \in ReusePairs : frame' = ReuseLocals(pair, frame.runs_left - 1)
    /\ pc' = "candidates"
    /\ UNCHANGED <<matcher, nvars, qvars>>

\* best_match_for_each_line ends in the IndexError of pass 2
Pass2IndexError ==
    /\ pc = "pass2"
    /\ RaisesIndexError(matcher, frame)
    /\ pc' = "raised"
    /\ UNCHANGED <<matcher, frame, nvars, qvars>>

ReuseNext ==
    \/ GenerateCandidateSets
    \/ DetectStructuralChanges
    \/ BuildSimilarityMatrix
    \/ Pass1
    \/ Pass2
    \/ Pass2IndexError
    \/ Pass3
    \/ Pass4
    \/ Pass5
    \/ Pass6
    \/ Pass7
    \/ ResolveConflicts
    \/ DetectReorders
    \/ DetectLineSplits
    \/ NextPair

SpecReuse == ReuseInit /\ [][ReuseNext]_vars

(***************************************************************************)
(* resolve_conflicts on its own: any mapping over a few old indices, on    *)
(* new sides of code lines and closing braces.                             *)
(***************************************************************************)
MaxMatches == 3

\* the old indices of the mapping: neighbours, and indices more than five
\* apart
ResolveOlds == {0, 1, 6, 7}

\* high and low confidence: above and below 0.8
ResolveScores == {5000, 9000}

\* new sides of "total = compute(alpha);" and "}"
ResolveSides == {<<3, 3>>, <<11, 3>>, <<3, 11, 3>>}

\* the dicts matches may be for a new side of n lines
MatchDicts(n) ==
    LET entries == ResolveOlds \X (0..(n - 1)) \X ResolveScores
    IN {m \in UNION {[1..len -> entries] : len \in 0..MaxMatches} :
           \A p, q \in 1..Len(m) : m[p][1] = m[q][1] => p = q}

ResolveInit ==
    /\ pc = "resolve"
    /\ \E replacements \in {<<>>, <<<<6, 0, 7000>>>>} :
           matcher = [DiffMatcher EXCEPT !.field_usage_replacements = replacements]
    /\ \E side \in ResolveSides : \E m \in MatchDicts(Len(side)) :
           frame = [Locals(<<>>, side, 1) EXCEPT !.matches = m]
    /\ NormOff
    /\ QueryOff

ResolveNext == ResolveConflicts

SpecResolve == ResolveInit /\ [][ResolveNext]_vars

\* C1: the mapping resolve_conflicts returns is injective: no new index is
\* the target of two old indices, also after a loser was moved to a nearby
\* slot
ResolvedInjective ==
    pc = "reorder" =>
        \A p, q \in 1..Len(frame.resolved) :
            frame.resolved[p][2] = frame.resolved[q][2] => p = q

(***************************************************************************)
(* The pipeline.                                                           *)
(***************************************************************************)
OldIndices == 0..(Len(frame.old_lines) - 1)

NewIndices == 0..(Len(frame.new_lines) - 1)

\* C2: at every stage, every key of the mapping is an index of the old side
\* and every new index in it, that of a salvaged slot, of a reorder and of a
\* split group too, is an index of the new side
IndicesInRange ==
    /\ \A p \in 1..Len(frame.matches) :
           frame.matches[p][1] \in OldIndices /\ frame.matches[p][2] \in NewIndices
    /\ \A p \in 1..Len(frame.resolved) :
           frame.resolved[p][1] \in OldIndices /\ frame.resolved[p][2] \in NewIndices
    /\ \A p \in 1..Len(frame.final_mappings) :
           /\ frame.final_mappings[p][1] \in OldIndices
           /\ \A q \in 1..Len(frame.final_mappings[p][2]) :
                  frame.final_mappings[p][2][q] \in NewIndices

\* a run is over in which resolve_conflicts moved a loser to a nearby slot
\* and detect_reorders added a match
SalvagedAndReordered ==
    /\ pc = "done"
    /\ \E p \in 1..Len(frame.resolved) :
           /\ DictHas(frame.matches, frame.resolved[p][1])
           /\ DictGet(frame.matches, frame.resolved[p][1])[2] # frame.resolved[p][2]
           /\ frame.resolved[p][3] > 8000
    /\ \E p \in 1..Len(frame.resolved) :
           /\ DictHas(frame.matches, frame.resolved[p][1])
           /\ frame.resolved[p][3] < DictGet(frame.matches, frame.resolved[p][1])[3]

\* a run is over in which detect_line_splits gave an old line two new lines
SplitInTwo ==
    /\ pc = "done"
    /\ \E p \in 1..Len(frame.final_mappings) : Len(frame.final_mappings[p][2]) = 2

\* C3: two runs on the same sides with the same configuration give the same
\* mapping: whichever removed field _detect_field_changes visits last, the
\* run ends with the mapping of this run
SameMappingOnEveryRun ==
    pc = "done" =>
        \A last \in LastVisited(frame.old_lines, frame.new_lines) :
            RunCase(frame.old_lines, frame.new_lines, frame.k, frame.candidates, last)
                = frame.final_mappings

\* C4: when the two sides are the same lines the mapping is i -> [i] for
\* every old index i
SameSidesGiveIdentity ==
    pc = "done" /\ frame.old_lines = frame.new_lines =>
        /\ Len(frame.final_mappings) = Len(frame.old_lines)
        /\ \A i \in OldIndices :
               /\ DictHas(frame.final_mappings, i)
               /\ DictGet(frame.final_mappings, i) = <<i, <<i>>>>

\* C5: with an empty old side or an empty new side every stage leaves the
\* mapping empty, and the run goes on to its end
EmptySideGivesEmptyMapping ==
    frame.old_lines = <<>> \/ frame.new_lines = <<>> =>
        /\ frame.matches = <<>>
        /\ frame.resolved = <<>>
        /\ frame.final_mappings = <<>>

\* a run with one empty side and lines on the other is over
EmptySideDone ==
    /\ pc = "done"
    /\ (frame.old_lines = <<>>) # (frame.new_lines = <<>>)

\* the match of every old index of before is in after unchanged, or with a
\* larger score
KeptOrRaised(before, after) ==
    \A p \in 1..Len(before) :
        DictHas(after, before[p][1]) =>
            \/ DictGet(after, before[p][1]) = before[p]
            \/ DictGet(after, before[p][1])[3] > before[p][3]

\* C10 as stated: a match recorded for an old index is replaced by a later
\* pass only with a strictly larger score: passes 1 to 7 keep or raise the
\* matches they find, and a match detect_reorders adds for an old index that
\* best_match_for_each_line had matched has a larger score than that match
ReplacedOnlyByLargerScore ==
    [][/\ pc \in {"pass1", "pass2", "pass3", "pass4", "pass5", "pass6", "pass7"} =>
              KeptOrRaised(frame.matches, frame'.matches)
       /\ pc = "reorder" =>
              /\ KeptOrRaised(frame.resolved, frame'.resolved)
              /\ \A p \in 1..Len(frame'.resolved) :
                     LET old_idx == frame'.resolved[p][1]
                     IN ~DictHas(frame.resolved, old_idx) /\ DictHas(frame.matches, old_idx) =>
                            frame'.resolved[p][3] > DictGet(frame.matches, old_idx)[3]]_vars

\* every match of before is in after, with the same new index and score
Kept(before, after) ==
    \A p \in 1..Len(before) :
        /\ DictHas(after, before[p][1])
        /\ DictGet(after, before[p][1]) = before[p]

\* C10: no pass replaces a match of the mapping it works on: passes 1 to 7
\* leave every match of matches as it is and only add matches for old
\* indices that have none, and detect_reorders leaves every match of the
\* mapping resolve_conflicts returned as it is and only adds matches for old
\* indices that mapping does not have
RecordedMatchesKept ==
    [][/\ pc \in {"pass1", "pass2", "pass3", "pass4", "pass5", "pass6", "pass7"} =>
              Kept(frame.matches, frame'.matches)
       /\ pc = "reorder" => Kept(frame.resolved, frame'.resolved)]_vars

\* detect_reorders has run and has given an old index, whose match of pass 1
\* to 7 resolve_conflicts had dropped, a match of a lower score, next to
\* matches it left alone
RematchedLower ==
    /\ pc = "splits"
    /\ \E p \in 1..Len(frame.resolved) :
           LET old_idx == frame.resolved[p][1]
           IN /\ DictHas(frame.matches, old_idx)
              /\ ~DictHas(resolve_conflicts(frame.matches, frame.new_lines,
                                            matcher.field_usage_replacements), old_idx)
              /\ frame.resolved[p][3] < DictGet(frame.matches, old_idx)[3]
    /\ \E p \in 1..Len(frame.resolved) :
           DictHas(frame.matches, frame.resolved[p][1])
               /\ DictGet(frame.matches, frame.resolved[p][1]) = frame.resolved[p]

\* the matches of after for old indices that before does not have: the
\* matches a pass has produced
Added(before, after) == SelectSeq(after, LAMBDA e : ~DictHas(before, e[1]))

\* every score of the matches is at least the floor
ScoresAtLeast(matches, floor) == \A p \in 1..Len(matches) : matches[p][3] >= floor

\* C11: the score stored with a match is at least the acceptance threshold
\* of the pass that produced it: 0.95 for pass 1, 0.6 for pass 3, also when
\* the stored score is the similarity times the position factor, 0.5 for
\* pass 4, 0.3 for pass 6 and 0.2 for pass 7
ScoresReachThreshold ==
    [][/\ pc = "pass1" => ScoresAtLeast(Added(frame.matches, frame'.matches), 9500)
       /\ pc = "pass3" => ScoresAtLeast(Added(frame.matches, frame'.matches), 6000)
       /\ pc = "pass4" => ScoresAtLeast(Added(frame.matches, frame'.matches), 5000)
       /\ pc = "pass6" => ScoresAtLeast(Added(frame.matches, frame'.matches), 3000)
       /\ pc = "pass7" => ScoresAtLeast(Added(frame.matches, frame'.matches), 2000)]_vars

\* ' '.join(new_lines[idx].strip() for idx in group)
JoinedGroup(new_lines, group) ==
    JoinSpace([p \in 1..Len(group) |-> Strip(TextAt(new_lines, group[p]))])

\* C12: every list of more than one new index that detect_line_splits
\* returns passed both gates: the old line is at least 0.1 more similar to
\* the joined text of the group than to any single line of the group, and
\* the words of the joined text cover at least 60% of the distinct words of
\* the old line
SplitsPassValidation ==
    pc = "done" =>
        \A p \in 1..Len(frame.final_mappings) :
            LET old_line == Strip(TextAt(frame.old_lines, frame.final_mappings[p][1]))
                group == frame.final_mappings[p][2]
                joined == JoinedGroup(frame.new_lines, group)
            IN Len(group) > 1 =>
                   /\ \A q \in 1..Len(group) :
                          text_similarity(old_line, joined)
                              >= text_similarity(old_line,
                                     Strip(TextAt(frame.new_lines, group[q]))) + 1000
                   /\ 10 * Cardinality(WordSet(old_line) \cap WordSet(joined))
                          >= 6 * Cardinality(WordSet(old_line))

\* C13: a sum split into an assignment and a "+=" is mapped to the group of
\* two whatever the other heuristics say: for "x = a + b + c;" against
\* "x = a + b;" and "x += c;" the mapping is {0 -> [0, 1]}
AdditiveSplitMapped ==
    pc = "done" /\ frame.old_lines = <<17>> /\ frame.new_lines = <<18, 19>> =>
        frame.final_mappings = << <<0, <<0, 1>>>> >>

\* C14: for "a=1;" and "b=2;" against "a=1; b=2;" the mapping detect_reorders
\* returns has both old indices, each on new index 0
MergedLinesBothMapped ==
    pc = "splits" /\ frame.old_lines = <<2, 20>> /\ frame.new_lines = <<21>> =>
        /\ DictHas(frame.resolved, 0) /\ DictGet(frame.resolved, 0)[2] = 0
        /\ DictHas(frame.resolved, 1) /\ DictGet(frame.resolved, 1)[2] = 0

\* C15: detect_line_splits keeps the keys of the mapping it is given, in
\* their order: every old index is mapped to a list that starts with the new
\* index it was matched to, and that is this index alone unless the old line
\* is a split candidate whose extended group has more than one line and
\* passes validation
SplitsKeepKeys ==
    [][pc = "splits" =>
          /\ Len(frame'.final_mappings) = Len(frame.resolved)
          /\ \A p \in 1..Len(frame.resolved) :
                 LET old_idx == frame.resolved[p][1]
                     new_idx == frame.resolved[p][2]
                     old_line == Strip(TextAt(frame.old_lines, old_idx))
                     group == frame'.final_mappings[p][2]
                 IN /\ frame'.final_mappings[p][1] = old_idx
                    /\ group # <<>>
                    /\ group[1] = new_idx
                    /\ \/ ~is_likely_split_candidate(old_line, frame.new_lines, new_idx)
                       \/ Len(extend_split_group_safely(old_line, frame.new_lines,
                                                        new_idx, ThresholdIncrease)) = 1
                       \/ ~validate_split(old_line,
                              extend_split_group_safely(old_line, frame.new_lines,
                                                        new_idx, ThresholdIncrease),
                              frame.new_lines)
                       => group = <<new_idx>>]_vars

\* a run is over in which an old line, a split candidate whose extended
\* group has two lines, kept its new index alone because the group failed
\* validation
FailedSplitKept ==
    /\ pc = "done"
    /\ \E p \in 1..Len(frame.final_mappings) :
           LET old_line == Strip(TextAt(frame.old_lines, frame.final_mappings[p][1]))
               new_idx == frame.resolved[p][2]
               extended == extend_split_group_safely(old_line, frame.new_lines, new_idx,
                                                     ThresholdIncrease)
           IN /\ is_likely_split_candidate(old_line, frame.new_lines, new_idx)
              /\ Len(extended) > 1
              /\ ~validate_split(old_line, extended, frame.new_lines)
              /\ frame.final_mappings[p][2] = <<new_idx>>

\* not a_context.strip(): the joined context is empty or blank
BlankContext(slice) ==
    Strip(JoinSpace([p \in 1..Len(slice) |-> Catalog[slice[p]]])) = <<>>

\* C16: content_similarity is 1 for two empty texts and 0 when exactly one
\* is empty; context_similarity is 0 when a context is empty or blank;
\* content_similarity(a, a) is 1; content_similarity(a, b) equals
\* content_similarity(b, a) and lies between 0 and 1
SimilarityEdgeCases ==
    pc = "scored" =>
        /\ frame.a = <<>> /\ frame.b = <<>> => frame.content = Scale
        /\ (frame.a = <<>>) # (frame.b = <<>>) => frame.content = 0
        /\ BlankContext(frame.a_context) \/ BlankContext(frame.b_context) =>
               frame.context = 0
        /\ frame.same = Scale
        /\ frame.content = frame.swapped
        /\ 0 <= frame.content /\ frame.content <= Scale

\* two different texts of different lengths are scored strictly between 0
\* and 1, with a blank context against a context of code
PartlyAlikeScored ==
    /\ pc = "scored"
    /\ Len(frame.a) # Len(frame.b)
    /\ 0 < frame.content /\ frame.content < Scale
    /\ frame.a_context = <<1, 1>>
    /\ frame.b_context = <<3>>

\* the new indices pass 1 has consumed before it comes to old index i
UsedBefore(matches, i) ==
    {matches[p][2] : p \in {q \in 1..Len(matches) : matches[q][1] < i}}

\* the candidates of old index i that score above 0.95 and are not consumed
\* when pass 1 comes to i
ExactCandidates(f, matches, i) ==
    LET cands == CandidatesOf(f.candidates, i)
    IN {cands[p] : p \in {q \in 1..Len(cands) :
                             /\ f.similarity_matrix[i][cands[q]] > 9500
                             /\ cands[q] \notin UsedBefore(matches, i)}}

\* C17: pass 1 gives every old index, in ascending order, that has a
\* candidate above 0.95 not yet consumed the smallest new index among those
\* candidates
LowestExactClaimed ==
    [][pc = "pass1" =>
          \A i \in OldIndices :
              ExactCandidates(frame, frame'.matches, i) # {} =>
                  /\ DictHas(frame'.matches, i)
                  /\ \A j \in ExactCandidates(frame, frame'.matches, i) :
                         DictGet(frame'.matches, i)[2] <= j]_vars

\* no new index is the target of two matches
OneToOne(matches) ==
    \A p, q \in 1..Len(matches) : matches[p][2] = matches[q][2] => p = q

\* C18: each of the passes 1 to 6 leaves matches without two old indices on
\* one new index and used_new_indices equal to the new indices of matches;
\* it leaves the matches it found in place and gives only old indices
\* without a match new indices that were not consumed.  A collision can
\* only come from pass 7.
PassesOneToSixDisjoint ==
    [][(pc \in {"pass1", "pass2", "pass3", "pass4", "pass5", "pass6"}) =>
          /\ OneToOne(frame'.matches)
          /\ frame'.used_new_indices = Targets(frame'.matches)
          /\ Kept(frame.matches, frame'.matches)
          /\ \A p \in 1..Len(frame'.matches) :
                 ~DictHas(frame.matches, frame'.matches[p][1]) =>
                     ~(frame'.matches[p][2] \in frame.used_new_indices)]_vars

\* best_match_for_each_line has returned a mapping in which pass 7 put an
\* old index on a new index that an earlier pass had given another one
CollisionFromPassSeven ==
    /\ pc = "resolve"
    /\ ~OneToOne(frame.matches)
    /\ frame.used_new_indices # {}
    /\ \E p \in 1..Len(frame.matches) : frame.matches[p][2] \in frame.used_new_indices

\* old index i has a candidate whose similarity is above 0.2
HasForcedCandidate(f, i) ==
    \E p \in 1..Len(CandidatesOf(f.candidates, i)) :
        f.similarity_matrix[i][CandidatesOf(f.candidates, i)[p]] > 2000

\* C19: in the mapping best_match_for_each_line returns, every old index
\* that has a candidate with similarity above 0.2 has a match, whether or
\* not its candidates were already consumed
ForcedCandidatesMatched ==
    pc = "resolve" =>
        \A i \in 0..(Len(frame.old_lines) - 1) :
            HasForcedCandidate(frame, i) => DictHas(frame.matches, i)

\* best_match_for_each_line has returned: an old index whose candidates
\* were all consumed has a match on one of them, and another old index,
\* without a candidate above 0.2, has none
ConsumedCandidateForced ==
    /\ pc = "resolve"
    /\ \E p \in 1..Len(frame.matches) :
           /\ \A j \in 0..(Len(frame.new_lines) - 1) :
                  InList(CandidatesOf(frame.candidates, frame.matches[p][1]), j) =>
                      j \in frame.used_new_indices
           /\ \E q \in 1..(p - 1) : frame.matches[q][2] = frame.matches[p][2]
    /\ \E i \in 0..(Len(frame.old_lines) - 1) :
           ~HasForcedCandidate(frame, i) /\ ~DictHas(frame.matches, i)

\* the positions in matches of the old indices that claim new index j
Claimants(matches, j) == {p \in 1..Len(matches) : matches[p][2] = j}

\* the claimant of new index j with the highest score, the first in the
\* order of matches among those with that score
BestClaimant(matches, j) ==
    CHOOSE p \in Claimants(matches, j) :
        \A q \in Claimants(matches, j) :
            \/ matches[p][3] > matches[q][3]
            \/ matches[p][3] = matches[q][3] /\ p <= q

\* C20: in the mapping resolve_conflicts returns, every new index that had
\* claimants is held by the claimant with the highest score, the first in
\* input order among equals, with its score (so a match that was alone on
\* its new index is copied as it was), and every key is a key of the input
BestClaimantKept ==
    pc = "reorder" =>
        /\ \A j \in Targets(frame.matches) :
               LET best == frame.matches[BestClaimant(frame.matches, j)]
               IN /\ DictHas(frame.resolved, best[1])
                  /\ DictGet(frame.resolved, best[1]) = best
        /\ \A p \in 1..Len(frame.resolved) : DictHas(frame.matches, frame.resolved[p][1])

\* resolve_conflicts has returned: two claimants of one new index had the
\* same score, the first of them holds the index, and a match that was
\* alone on another new index is in the result as well
TieWonByFirst ==
    /\ pc = "reorder"
    /\ \E p, q \in 1..Len(frame.matches) :
           /\ p < q
           /\ frame.matches[p][2] = frame.matches[q][2]
           /\ frame.matches[p][3] = frame.matches[q][3]
           /\ DictHas(frame.resolved, frame.matches[p][1])
           /\ DictGet(frame.resolved, frame.matches[p][1]) = frame.matches[p]
    /\ \E r \in 1..Len(frame.matches) :
           /\ Claimants(frame.matches, frame.matches[r][2]) = {r}
           /\ DictHas(frame.resolved, frame.matches[r][1])

\* the positions in matches of the claimants that lost their new index
Losers(matches) ==
    {p \in 1..Len(matches) : p # BestClaimant(matches, matches[p][2])}

\* the loser at position p of matches may be moved to new index slot
MayBeSalvaged(m, f, p, slot) ==
    LET old_idx == f.matches[p][1]
        new_idx == f.matches[p][2]
        winner == f.matches[BestClaimant(f.matches, new_idx)][1]
    IN /\ DictHas(m.field_usage_replacements, old_idx) \/ f.matches[p][3] > 8000
       /\ Abs(old_idx - winner) > 5
       /\ is_semantically_reasonable_match(new_idx, f.new_lines)
       /\ slot # new_idx
       /\ Abs(slot - new_idx) <= 15
       /\ 0 <= slot /\ slot < Len(f.new_lines)
       /\ is_semantically_reasonable_match(slot, f.new_lines)

\* C21: a claimant that lost its new index is in the mapping
\* resolve_conflicts returns only if it is a field-replacement site or has a
\* score above 0.8, is more than 5 old lines from the winner, the contested
\* new line is a reasonable line, and it was given another reasonable line
\* within 15 of the contested one; it is there with its own score
LosersSalvagedOnly ==
    pc = "reorder" =>
        \A p \in Losers(frame.matches) :
            DictHas(frame.resolved, frame.matches[p][1]) =>
                LET kept == DictGet(frame.resolved, frame.matches[p][1])
                IN /\ kept[3] = frame.matches[p][3]
                   /\ MayBeSalvaged(matcher, frame, p, kept[2])

\* resolve_conflicts has returned: one loser of low score was moved because
\* it is a field-replacement site, and another loser is gone
LoserSalvagedLoserDropped ==
    /\ pc = "reorder"
    /\ \E p, q \in Losers(frame.matches) :
           /\ DictHas(frame.resolved, frame.matches[p][1])
           /\ frame.matches[p][3] <= 8000
           /\ ~DictHas(frame.resolved, frame.matches[q][1])

\* C22: detect_reorders only adds matches: every match it was given is in
\* its result as it was; a match it adds is for an old index that had none,
\* on a new index that no match it was given and no other match it adds is
\* on, with a score of at least the threshold 0.4; and when no two matches
\* it was given share a new index, no two matches of its result do
ReordersOnlyAdd ==
    [][pc = "reorder" =>
          LET extra == Added(frame.resolved, frame'.resolved)
          IN /\ Kept(frame.resolved, frame'.resolved)
             /\ Len(frame'.resolved) = Len(frame.resolved) + Len(extra)
             /\ \A p \in 1..Len(extra) : ~(extra[p][2] \in Targets(frame.resolved))
             /\ OneToOne(extra)
             /\ ScoresAtLeast(extra, ReorderThreshold)
             /\ OneToOne(frame.resolved) => OneToOne(frame'.resolved)]_vars

\* detect_reorders has returned a mapping with a match that
\* resolve_conflicts did not return, next to the matches it did return
ReorderAdded ==
    /\ pc = "splits"
    /\ LET given == resolve_conflicts(frame.matches, frame.new_lines,
                                      matcher.field_usage_replacements)
       IN /\ given # <<>>
          /\ Added(given, frame.resolved) # <<>>

\* new index j is in the range detect_reorders searches for old index i
\* of method old_method
InSearchRange(new_methods, old_method, i, j) ==
    IF DictHas(new_methods, old_method)
    THEN /\ DictGet(new_methods, old_method)[2] - 25 <= j
         /\ j <= DictGet(new_methods, old_method)[3] + 25
    ELSE Abs(j - i) <= 60

\* C23: a match detect_reorders adds is between an old and a new line of
\* the same method, unless one of them is in no method, and its new index is
\* within 25 lines of the range the old line's method has on the new side,
\* or within 60 lines of the old index when the new side has no such method
ReordersStayInScope ==
    [][pc = "reorder" =>
          \A p \in 1..Len(frame'.resolved) :
              ~DictHas(frame.resolved, frame'.resolved[p][1]) =>
                  LET old_method == get_method_context(frame'.resolved[p][1],
                                                       matcher.method_boundaries.old)
                      new_method == get_method_context(frame'.resolved[p][2],
                                                       matcher.method_boundaries.new)
                  IN /\ old_method = new_method \/ Global \in {old_method, new_method}
                     /\ InSearchRange(matcher.method_boundaries.new, old_method,
                                      frame'.resolved[p][1], frame'.resolved[p][2])]_vars

\* detect_reorders has returned: it added a match, and it left an old line
\* of a method without one although the new side has the same text 26 lines
\* after the end of that method
BeyondRangeUnmatched ==
    /\ pc = "splits"
    /\ matcher.method_boundaries.new # <<>>
    /\ \E p \in 1..Len(frame.resolved) : frame.resolved[p][3] \notin GivenScores
    /\ \E i \in 0..(Len(frame.old_lines) - 1) : \E j \in 0..(Len(frame.new_lines) - 1) :
           /\ ~DictHas(frame.resolved, i)
           /\ j \notin Targets(frame.resolved)
           /\ frame.old_lines[i + 1] = frame.new_lines[j + 1]
           /\ frame.old_lines[i + 1] = 3
           /\ get_method_context(j, matcher.method_boundaries.new) = Global
           /\ ~InSearchRange(matcher.method_boundaries.new,
                             get_method_context(i, matcher.method_boundaries.old), i, j)

SkippedLine(new_lines, j) ==
    Strip(TextAt(new_lines, j)) = <<>> \/ Strip(TextAt(new_lines, j)) \in Braces

RECURSIVE BraceBalance(_, _, _)
BraceBalance(lines, s, i) ==
    IF i < s THEN 0
    ELSE BraceBalance(lines, s, i - 1)
             + Count(TextAt(lines, i), "{") - Count(TextAt(lines, i), "}")

\* C25: a range _find_method_boundaries records for a header at line s ends
\* at the first line from s on at which the braces opened since s are all
\* closed, the braces of the header and of later header-like lines
\* counted; it lies in the file; and the ranges of two names do not overlap
BoundariesFollowBalance ==
    pc = "bounded" =>
        /\ \A p \in 1..Len(frame.boundaries) :
               LET s == frame.boundaries[p][2]
                   e == frame.boundaries[p][3]
               IN /\ 0 <= s /\ s <= e /\ e < Len(frame.lines)
                  /\ BraceBalance(frame.lines, s, e) <= 0
                  /\ \A i \in s..(e - 1) : BraceBalance(frame.lines, s, i) > 0
        /\ \A p, q \in 1..Len(frame.boundaries) :
               p # q => \/ frame.boundaries[p][3] < frame.boundaries[q][2]
                        \/ frame.boundaries[q][3] < frame.boundaries[p][2]

\* the proposals of the four strategies, entries <<old_var, new_var, confidence>>
Proposals(old_contexts, new_contexts) ==
    find_variable_renames_by_context(old_contexts, new_contexts)
        \o find_variable_renames_by_pattern(old_contexts, new_contexts)
        \o find_variable_renames_by_semantic_similarity(old_contexts, new_contexts)
        \o find_paired_variable_renames(old_contexts, new_contexts)

\* the old name is in no new line, and the two variables share an operation
\* and a scope
PassesValidation(old_context, new_context, new_lines) ==
    /\ \A i \in 0..(Len(new_lines) - 1) : ~HasWord(TextAt(new_lines, i), old_context.name)
    /\ old_context.operations \cap new_context.operations # {}
    /\ old_context.methods \cap new_context.methods # {}

\* every entry of the table passes the validation and is a proposal that no
\* proposal for the same old name exceeds
TableValidAndBest(table, proposals, old_contexts, new_contexts, new_lines) ==
    \A p \in 1..Len(table) :
        /\ HasContext(old_contexts, table[p][1])
        /\ HasContext(new_contexts, table[p][2])
        /\ PassesValidation(ContextOf(old_contexts, table[p][1]),
                            ContextOf(new_contexts, table[p][2]), new_lines)
        /\ \E r \in 1..Len(proposals) :
               /\ proposals[r][1] = table[p][1]
               /\ proposals[r][2] = table[p][2]
               /\ \A q \in 1..Len(proposals) :
                      proposals[q][1] = table[p][1] => proposals[q][3] <= proposals[r][3]

\* TableValidAndBest for the proposals the contexts give
TableValidAndBestFor(table, old_contexts, new_contexts, new_lines) ==
    TableValidAndBest(table, Proposals(old_contexts, new_contexts), old_contexts,
                      new_contexts, new_lines)

\* C26: every entry old_name -> new_name of the rename table passes the
\* final validation (old_name is a whole word of no new line, the two
\* variables share an operation, and share a scope), and is the proposal of
\* the highest confidence the four strategies made for old_name
RenameTableValidated ==
    pc = "matrix" =>
        TableValidAndBestFor(matcher.variable_renames,
            build_variable_contexts(frame.old_lines, matcher.method_boundaries.old),
            build_variable_contexts(frame.new_lines, matcher.method_boundaries.new),
            frame.new_lines)

\* two of the proposals for old_var name different new variables
ProposalsDiffer(proposals, old_var) ==
    \E q, r \in 1..Len(proposals) :
        /\ proposals[q][1] = old_var
        /\ proposals[r][1] = old_var
        /\ proposals[q][2] # proposals[r][2]

\* the rename table has an entry for an old name for which two strategies
\* proposed different new names
RenameChosenAmongTwo ==
    /\ pc = "matrix"
    /\ matcher.variable_renames # <<>>
    /\ ProposalsDiffer(
           Proposals(build_variable_contexts(frame.old_lines, matcher.method_boundaries.old),
                     build_variable_contexts(frame.new_lines, matcher.method_boundaries.new)),
           matcher.variable_renames[1][1])

\* old_var has a pattern proposal that passes the final validation, and no
\* proposal of a higher confidence
PatternProposalStands(proposals, pattern, old_contexts, new_contexts, new_lines, p) ==
    /\ HasContext(new_contexts, pattern[p][2])
    /\ contexts_are_compatible(old_contexts, new_contexts, pattern[p][1], pattern[p][2])
    /\ PassesValidation(ContextOf(old_contexts, pattern[p][1]),
                        ContextOf(new_contexts, pattern[p][2]), new_lines)
    /\ \A q \in 1..Len(proposals) :
           proposals[q][1] = pattern[p][1] => proposals[q][3] <= pattern[p][3]

\* every pattern proposal that stands is in the table
PatternRenamesIn(table, old_contexts, new_contexts, new_lines) ==
    \A p \in 1..Len(find_variable_renames_by_pattern(old_contexts, new_contexts)) :
        PatternProposalStands(Proposals(old_contexts, new_contexts),
                              find_variable_renames_by_pattern(old_contexts, new_contexts),
                              old_contexts, new_contexts, new_lines, p) =>
            InList(table, <<find_variable_renames_by_pattern(old_contexts, new_contexts)[p][1],
                            find_variable_renames_by_pattern(old_contexts, new_contexts)[p][2]>>)

\* C27: a rename the pattern strategy proposes, the suffix renames of
\* confidence 0.7 included, is in the rename table when the predicted name
\* is a variable of the new side, the contexts are compatible, the final
\* validation passes and no strategy proposed a rename of higher confidence
\* for the old name
PatternRenamesStored ==
    pc = "matrix" =>
        PatternRenamesIn(matcher.variable_renames,
            build_variable_contexts(frame.old_lines, matcher.method_boundaries.old),
            build_variable_contexts(frame.new_lines, matcher.method_boundaries.new),
            frame.new_lines)

\* the piece is an integer literal
IsNumber(piece) == piece # <<>> /\ \A p \in 1..Len(piece) : piece[p] \in Digits

\* the piece is an identifier
IsName(piece) ==
    /\ piece # <<>>
    /\ piece[1] \in Lower \cup Upper \cup {"_"}
    /\ \A p \in 1..Len(piece) : piece[p] \in WordChars

\* the two lists of pieces are equal but for identifiers of the first where
\* the second has integer literals, at one place at least
NamesForNumbers(pa, pb) ==
    /\ Len(pa) = Len(pb)
    /\ \A p \in 1..Len(pa) : pa[p] = pb[p] \/ (IsName(pa[p]) /\ IsNumber(pb[p]))
    /\ \E p \in 1..Len(pa) : pa[p] # pb[p]

\* C28: normalize_code turns an integer literal into NUM, not VAR, and two
\* texts that differ only in that one has an identifier where the other has
\* an integer literal have a content_similarity below 1
LiteralsStayNum ==
    pc = "scored" =>
        /\ IsNumber(frame.b) => normalize_code(frame.b) = <<"N", "U", "M">>
        /\ NamesForNumbers(PiecesFrom(frame.a, 1), PiecesFrom(frame.b, 1)) =>
               frame.content < Scale

\* the closer of the family of an opener
CloserOf(opener) == IF opener = BlockOpen THEN BlockClose ELSE opener

\* the opener at position p of the line, <<>> if there is none
OpenerAt(line, p) ==
    IF \E opener \in Openers : MatchAt(line, opener, p)
    THEN CHOOSE opener \in Openers : MatchAt(line, opener, p)
    ELSE <<>>

\* the comments of the line paired off from position p on: the opener that
\* is left without a closer of its family, <<>> if every comment is closed
RECURSIVE OpenFrom(_, _)
OpenFrom(line, p) ==
    IF p > Len(line) THEN <<>>
    ELSE IF OpenerAt(line, p) = <<>> THEN OpenFrom(line, p + 1)
    ELSE IF Find(line, CloserOf(OpenerAt(line, p)), p + Len(OpenerAt(line, p))) = 0
         THEN OpenerAt(line, p)
    ELSE OpenFrom(line, Find(line, CloserOf(OpenerAt(line, p)), p + Len(OpenerAt(line, p)))
                            + Len(CloserOf(OpenerAt(line, p))))

\* the first line after line i that holds the closer, one past the end if
\* there is none
CloseLine(lines, i, closer) ==
    LET hits == {j \in (i + 1)..Len(lines) : Find(lines[j], closer, 1) # 0}
    IN IF hits = {} THEN Len(lines) + 1 ELSE CHOOSE j \in hits : \A h \in hits : j <= h

\* the comments of the list from line i on: <<line of the opener, line of
\* the closer>>
RECURSIVE CommentRanges(_, _)
CommentRanges(lines, i) ==
    IF i > Len(lines) THEN {}
    ELSE IF OpenFrom(lines[i], 1) = <<>> THEN CommentRanges(lines, i + 1)
    ELSE {<<i, CloseLine(lines, i, CloserOf(OpenFrom(lines[i], 1)))>>}
             \cup CommentRanges(lines,
                      CloseLine(lines, i, CloserOf(OpenFrom(lines[i], 1))) + 1)

\* after is before but for the lines that hold a delimiter and the lines
\* strictly inside the comments of before
ChangedInCommentsOnly(before, after) ==
    \A j \in 1..Len(before) :
        after[j] # before[j] =>
            \/ HasOpener(before[j])
            \/ HasCloser(before[j])
            \/ \E r \in CommentRanges(before, 1) : r[1] < j /\ j < r[2]

\* C29: normalize_block_comments changes a line without a delimiter only
\* when it lies strictly between a line with an opener that is not closed
\* on that line and the first later line with the closer of the same kind
\* (/* with */, ''' with ''', """ with """), so a line that opens and
\* closes a comment does not make later lines go; every other line without
\* a delimiter keeps its text
ErasedInsideCommentsOnly ==
    npc = "done" =>
        ChangedInCommentsOnly([i \in 1..Len(raw_lines) |-> normalize_line(raw_lines[i])],
                              norm_lines)

\* a pair is run on an instance that another pair was run on before
OnUsedInstance == frame.runs_left < MaxRuns - 1

\* C30: a pair run on an instance that was used for another pair raises no
\* error and ends with a mapping that a fresh instance gives the pair from
\* the same candidate sets
NoStateBetweenPairs ==
    OnUsedInstance =>
        /\ pc # "raised"
        /\ pc = "done" =>
               \E last \in LastVisited(frame.old_lines, frame.new_lines) :
                   RunCase(frame.old_lines, frame.new_lines, frame.k, frame.candidates, last)
                       = frame.final_mappings

=============================================================================
